---- MODULE Spec2Model ----
(***************************************************************************)
(* Model of XrdAdaptor::RequestManager and RequestManager::OpenHandler     *)
(* (Utilities/XrdAdaptor/src/XrdRequestManager.cc).                         *)
(*                                                                         *)
(* Times are monotonic-clock readings in milliseconds; tv_sec of a         *)
(* timespec t is t \div 1000.  Source objects are numbered 1, 2, ... in    *)
(* order of creation; a shared_ptr<Source> is the object's number.         *)
(* Byte counts, offsets and buffer addresses are integers in bytes.        *)
(***************************************************************************)
EXTENDS Integers, Sequences, FiniteSets, TLC

(***************************************************************************)
(* Program constants                                                       *)
(***************************************************************************)
XRD_CL_MAX_CHUNK == 524288
XRD_ADAPTOR_SHORT_OPEN_DELAY == 5
XRD_ADAPTOR_LONG_OPEN_DELAY == 120
XRD_ADAPTOR_SOURCE_QUALITY_FUDGE == 100

(***************************************************************************)
(* Bounds of the model                                                     *)
(***************************************************************************)
\* longest scatter list given to splitClientRequest
MaxFrags == 3
\* rounds of the splitting loop that are followed before a run is cut off
MaxRounds == 12

\* Source objects created in one run (the constructor's included)
MaxSources == 2
\* asynchronous open attempts started in one run
MaxOpens == 2
\* times the clock advances in one run
MaxTicks == 1
\* client requests that are outstanding at the same time
MaxRequests == 2

\* the application thread calls handle and requestFailure; the transport's
\* threads run the open callback and requestFailure
AppThreads == {"app"}
XrdThreads == {"x1", "x2"}
Threads == AppThreads \cup XrdThreads
NoThread == "none"
NoSource == 0

\* server identities (host:port) the redirector can send the client to
ServerIds == {"a:1094", "b:1094"}
\* values the per-source quality metric takes in the runs of the whole manager
QualitySet == {300, 6000}
\* clock reading at construction and the advances of the clock (ms)
StartTime == 10000
TickSteps == {500, 5000, 120000}
\* scatter lists given to handle(iolist)
HandleInputs ==
    { <<>>,
      <<[offset |-> 0, data |-> 4194304, size |-> 600000],
        [offset |-> 600000, data |-> 8388608, size |-> 204800]>> }
HandleInputsWide ==
    HandleInputs \cup
    { <<[offset |-> 4096, data |-> 4194304, size |-> 0]>>,
      <<[offset |-> 0, data |-> 4194304, size |-> 204800],
        [offset |-> 208896, data |-> 4403200, size |-> 1200000],
        [offset |-> 1408896, data |-> 5603200, size |-> 204800]>> }
\* status codes a failed read reports to requestFailure
ReadErrors == {"errInvalidResponse", "errOther"}

\* sizes of the fragments of the input scatter lists (bytes)
SizeSet == {0, 204800, 600000, 1200000}
\* gap between the end of a fragment and the offset of the next one
GapSet == {0, 4096}
\* qualities of activeSources[0] and activeSources[1] in the split runs
QualityPairs == {<<0, 0>>, <<0, 300>>, <<100, 0>>, <<100, 300>>,
                 <<300, 100>>, <<6000, 1>>, <<260, 260>>}
\* how the caller's buffers lie in memory: one contiguous buffer, or one
\* separate buffer per fragment
BufLayouts == {"contiguous", "separate"}
BufStride == 4194304
\* order of the fragments in the input list
ListOrders == {"ascending", "descending"}

VARIABLES
    pc,             \* per thread: where the thread is
    local,          \* per thread: the local variables of its operation
    sourceLock,     \* owner of RequestManager::m_source_mutex
    handlerLock,    \* owner of OpenHandler::m_mutex
    activeSources,  \* m_activeSources (sequence of source objects)
    inactiveSources,        \* m_inactiveSources (sequence)
    disabledSources,        \* m_disabledSources (set of source objects)
    disabledSourceStrings,  \* m_disabledSourceStrings (set of ids)
    lastSourceCheck,        \* m_lastSourceCheck
    nextActiveSourceCheck,  \* m_nextActiveSourceCheck
    nextInitialSourceToggle,\* m_nextInitialSourceToggle
    srcId,          \* Source::ID(), per source object
    quality,        \* Source::getQuality(), per source object
    lastDowngrade,  \* Source::getLastDowngrade(), per source object
    m_file,         \* OpenHandler::m_file is non-null
    futures,        \* outcome of each open attempt (promise/shared future)
    callbacks,      \* attempts whose transport callback has not run yet
    m_ignore_response,      \* OpenHandler::m_ignore_response (atomic flag)
    requests,       \* per source object: the client requests it is serving
    handed,         \* what handle(iolist) gave to Source::handle, until it returns
    clock,          \* CLOCK_MONOTONIC
    ticks,          \* advances of the clock so far
    iolist,         \* the scatter list given to handle(iolist)
    tmp_iolist,     \* splitClientRequest: working copy
    front,          \* splitClientRequest: front cursor (0-based)
    req1, req2,     \* splitClientRequest: the two output lists
    chunk1, chunk2, \* splitClientRequest: per-round budgets
    rounds,         \* iterations of the splitting loop so far
    splitDone       \* "no" | "ok" | "assert" (an assertion failed)

splitVars == <<iolist, tmp_iolist, front, req1, req2, chunk1, chunk2, rounds, splitDone>>
collVars == <<activeSources, inactiveSources, disabledSources, disabledSourceStrings>>
checkVars == <<lastSourceCheck, nextActiveSourceCheck>>
srcVars == <<srcId, quality, lastDowngrade>>
handlerVars == <<m_file, futures, callbacks, m_ignore_response>>
clockVars == <<clock, ticks>>
nonSplitVars == <<local, sourceLock, handlerLock, collVars, checkVars,
                  nextInitialSourceToggle, srcVars, handlerVars, requests, handed, clockVars>>
vars == <<pc, local, sourceLock, handlerLock, collVars, checkVars, nextInitialSourceToggle,
          srcVars, handlerVars, requests, handed, clockVars, splitVars>>

(***************************************************************************)
(* IOPosBuffer and the scatter lists                                       *)
(***************************************************************************)
IOPosBuffer(o, d, s) == [offset |-> o, data |-> d, size |-> s]

RECURSIVE SumSizes(_)
SumSizes(l) == IF l = <<>> THEN 0 ELSE l[1].size + SumSizes(Tail(l))

Reverse(l) == [i \in 1..Len(l) |-> l[Len(l) + 1 - i]]

\* the list with the given sizes and gaps, offsets ascending from 0
RECURSIVE BuildList(_, _, _, _, _)
BuildList(sizes, gaps, layout, off, k) ==
    IF k > Len(sizes) THEN <<>>
    ELSE LET o == off + gaps[k]
             d == IF layout = "contiguous" THEN BufStride + o ELSE k * BufStride
         IN <<IOPosBuffer(o, d, sizes[k])>>
            \o BuildList(sizes, gaps, layout, o + sizes[k], k + 1)

SplitInputs ==
    UNION { { IF ord = "ascending" THEN BuildList(sz, gp, lay, 0, 1)
              ELSE Reverse(BuildList(sz, gp, lay, 0, 1)) :
                sz \in [1..n -> SizeSet], gp \in [1..n -> GapSet],
                lay \in BufLayouts, ord \in ListOrders } : n \in 0..MaxFrags }

(***************************************************************************)
(* float arithmetic of the chunk budgets                                   *)
(***************************************************************************)
Pow2(k) == 2^k

\* smallest k with n * 2^k >= d   (0 < n <= d)
RECURSIVE NormShift(_, _, _)
NormShift(n, d, k) == IF n >= d THEN k ELSE NormShift(2 * n, d, k + 1)

\* 23 further quotient bits of r/d  (r < d): <<quotient, remainder>>
RECURSIVE DivBits(_, _, _, _)
DivBits(r, d, m, bits) ==
    IF bits = 0 THEN <<m, r>>
    ELSE IF 2 * r >= d THEN DivBits(2 * r - d, d, 2 * m + 1, bits - 1)
         ELSE DivBits(2 * r, d, 2 * m, bits - 1)

\* the float quotient n/d, 0 < n <= d < 2^24, round to nearest even:
\* value = mant * 2^-(shift+23), 2^23 <= mant <= 2^24
FloatDiv(n, d) ==
    LET k == NormShift(n, d, 0)
        qr == DivBits(n * Pow2(k) - d, d, 1, 23)
        m == qr[1]
        r == qr[2]
        up == (2 * r > d) \/ (2 * r = d /\ m % 2 = 1)
    IN [mant |-> IF up THEN m + 1 ELSE m, shift |-> k]

\* static_cast<IOSize>(static_cast<float>(XRD_CL_MAX_CHUNK) * (n/d)), d > 0
ChunkOf(n, d) ==
    IF n = 0 THEN 0
    ELSE LET f == FloatDiv(n, d) IN f.mant \div Pow2(f.shift + 4)

\* conversion of a NaN float to IOSize is undefined: the value the build
\* produces (0, or 0x8000000000000000 which is above every size here)
NaNChunk == 1073741824
NaNToIOSize == {0, NaNChunk}

\* the pairs <<chunk1, chunk2>> splitClientRequest can compute
ChunkPairs(q1, q2) ==
    IF q1 + q2 = 0 THEN { <<c, c>> : c \in NaNToIOSize }
    ELSE { <<ChunkOf(q2, q1 + q2), ChunkOf(q1, q1 + q2)>> }

(***************************************************************************)
(* consumeChunkFront / consumeChunkBack                                    *)
(***************************************************************************)
\* a variant that caps the merged tail but reports the whole budget consumed
ConsumeInto_NoCap(output, io, chunksize) ==
    LET n == Len(output)
        merge == n > 0 /\ output[n].size < XRD_CL_MAX_CHUNK
                       /\ output[n].offset + output[n].size = io.offset
        capped == merge /\ output[n].size + chunksize > XRD_CL_MAX_CHUNK
    IN [consumed |-> chunksize,
        output |-> IF merge
                   THEN [output EXCEPT ![n].size =
                            IF capped THEN XRD_CL_MAX_CHUNK ELSE output[n].size + chunksize]
                   ELSE Append(output, IOPosBuffer(io.offset, io.data, chunksize))]

\* the output list after `consumed`/`chunksize` bytes of io were taken
ConsumeInto(output, io, chunksize) ==
    LET n == Len(output)
        merge == n > 0 /\ output[n].size < XRD_CL_MAX_CHUNK
                       /\ output[n].offset + output[n].size = io.offset
        capped == merge /\ output[n].size + chunksize > XRD_CL_MAX_CHUNK
        consumed == IF capped THEN XRD_CL_MAX_CHUNK - output[n].size ELSE chunksize
    IN [consumed |-> consumed,
        output |-> IF merge
                   THEN [output EXCEPT ![n].size =
                            IF capped THEN XRD_CL_MAX_CHUNK ELSE output[n].size + consumed]
                   ELSE Append(output, IOPosBuffer(io.offset, io.data, chunksize))]

Advance(io, consumed) ==
    IOPosBuffer(io.offset + consumed, io.data + consumed, io.size - consumed)

RECURSIVE consumeChunkFront(_, _, _, _)
consumeChunkFront(fr, input, output, chunksize) ==
    IF ~(chunksize > 0 /\ fr < Len(input))
    THEN [front |-> fr, input |-> input, output |-> output]
    ELSE LET io == input[fr + 1] IN
         IF io.size > chunksize
         THEN LET c == ConsumeInto(output, io, chunksize)
              IN consumeChunkFront(fr, [input EXCEPT ![fr + 1] = Advance(io, c.consumed)],
                                   c.output, chunksize - c.consumed)
         ELSE IF io.size = 0
         THEN consumeChunkFront(fr + 1, input, output, chunksize)
         ELSE consumeChunkFront(fr + 1, input, Append(output, io), chunksize - io.size)

RECURSIVE consumeChunkBack(_, _, _, _)
consumeChunkBack(fr, input, output, chunksize) ==
    IF ~(chunksize > 0 /\ fr < Len(input))
    THEN [front |-> fr, input |-> input, output |-> output]
    ELSE LET n == Len(input)
             io == input[n] IN
         IF io.size > chunksize
         THEN LET c == ConsumeInto(output, io, chunksize)
              IN consumeChunkBack(fr, [input EXCEPT ![n] = Advance(io, c.consumed)],
                                  c.output, chunksize - c.consumed)
         ELSE IF io.size = 0
         THEN consumeChunkBack(fr, SubSeq(input, 1, n - 1), output, chunksize)
         ELSE consumeChunkBack(fr, SubSeq(input, 1, n - 1), Append(output, io),
                               chunksize - io.size)

(***************************************************************************)
(* std::sort by offset, validateList                                       *)
(***************************************************************************)
RECURSIVE InsertByOffset(_, _)
InsertByOffset(l, x) ==
    IF l = <<>> THEN <<x>>
    ELSE IF x.offset < l[1].offset THEN <<x>> \o l
    ELSE <<l[1]>> \o InsertByOffset(Tail(l), x)

RECURSIVE SortByOffset(_)
SortByOffset(l) ==
    IF l = <<>> THEN <<>>
    ELSE InsertByOffset(SortByOffset(SubSeq(l, 1, Len(l) - 1)), l[Len(l)])

\* the assertions of validateList hold for req (every offset of the model
\* is below 2^31, so the assertion offset < 0x1ffffffffff cannot fail)
validateList(req) ==
    \A i \in 1..Len(req) :
        /\ req[i].offset > (IF i = 1 THEN -1 ELSE req[i - 1].offset)
        /\ req[i].size <= XRD_CL_MAX_CHUNK


(***************************************************************************)
(* Helpers on sequences of source objects                                  *)
(***************************************************************************)
RemoveAt(l, i) == SubSeq(l, 1, i - 1) \o SubSeq(l, i + 1, Len(l))

InSeq(l, x) == \E i \in 1..Len(l) : l[i] = x

\* erase the first element that is the object x (pointer comparison)
RemoveFirst(l, x) ==
    IF InSeq(l, x)
    THEN RemoveAt(l, CHOOSE i \in 1..Len(l) : l[i] = x /\ \A j \in 1..(i - 1) : l[j] # x)
    ELSE l

\* std::min_element / std::max_element by quality: the first such element
MinElement_First(l) == 1

MinElement(l) ==
    CHOOSE i \in 1..Len(l) : \A j \in 1..Len(l) :
        quality[l[i]] < quality[l[j]] \/ (quality[l[i]] = quality[l[j]] /\ i <= j)

MaxElement(l) ==
    CHOOSE i \in 1..Len(l) : \A j \in 1..Len(l) :
        quality[l[i]] > quality[l[j]] \/ (quality[l[i]] = quality[l[j]] /\ i <= j)

timeDiffMS(a, b) == a - b

AddSeconds(ts, sec) == ts + sec * 1000

tv_sec(ts) == ts \div 1000

(***************************************************************************)
(* compareSources and the body of checkSourcesImpl up to the open() call.  *)
(* A state st is [active, inactive, ld, find]: the two collections, the    *)
(* lastDowngrade of every source and findNewSource.                        *)
(***************************************************************************)
compareSources_NoStamp(st, now, a, b) ==
    IF Len(st.active) < (IF a > b THEN a ELSE b) + 1
    THEN [st EXCEPT !.find = FALSE]
    ELSE LET sa == st.active[a + 1]
             sb == st.active[b + 1]
         IN IF \/ quality[sa] > 5130
               \/ (quality[sa] > 260 /\ quality[sb] * 4 < quality[sa])
            THEN [active |-> RemoveAt(st.active, a + 1),
                  inactive |-> Append(st.inactive, sa),
                  ld |-> st.ld,
                  find |-> tv_sec(st.ld[sa]) # 0]
            ELSE [st EXCEPT !.find = FALSE]

compareSources(st, now, a, b) ==
    IF Len(st.active) < (IF a > b THEN a ELSE b) + 1
    THEN [st EXCEPT !.find = FALSE]
    ELSE LET sa == st.active[a + 1]
             sb == st.active[b + 1]
         IN IF \/ quality[sa] > 5130
               \/ (quality[sa] > 260 /\ quality[sb] * 4 < quality[sa])
            THEN [active |-> RemoveAt(st.active, a + 1),
                  inactive |-> Append(st.inactive, sa),
                  ld |-> [st.ld EXCEPT ![sa] = now],
                  find |-> tv_sec(st.ld[sa]) # 0]
            ELSE [st EXCEPT !.find = FALSE]

eligibleInactiveSources(inactive, ld, now, delay) ==
    SelectSeq(inactive, LAMBDA s : timeDiffMS(now, ld[s]) > (delay - 1) * 1000)

RECURSIVE SwapLoop(_, _, _)
SwapLoop(st, eligible, now) ==
    IF eligible = <<>> THEN st
    ELSE LET best == eligible[MinElement(eligible)]
             wi == MaxElement(st.active)
             worst == st.active[wi]
         IN IF ~(quality[worst] > quality[best] + XRD_ADAPTOR_SOURCE_QUALITY_FUDGE)
            THEN st
            ELSE LET ld2 == [st.ld EXCEPT ![worst] = now]
                     inact2 == Append(RemoveFirst(st.inactive, best), worst)
                     act2 == Append(RemoveAt(st.active, wi), best)
                 IN SwapLoop([st EXCEPT !.active = act2, !.inactive = inact2, !.ld = ld2],
                             eligibleInactiveSources(inact2, ld2, now,
                                                     XRD_ADAPTOR_LONG_OPEN_DELAY),
                             now)

\* probe: the random draw came out below XRD_ADAPTOR_OPEN_PROBE_PERCENT
checkSourcesImpl(now, probe) ==
    LET s0 == [active |-> activeSources, inactive |-> inactiveSources,
               ld |-> lastDowngrade, find |-> FALSE]
    IN IF Len(activeSources) <= 1 THEN [s0 EXCEPT !.find = TRUE]
       ELSE LET s1 == compareSources(s0, now, 0, 1)
                s2 == compareSources(s1, now, 1, 0)
                found == s1.find \/ s2.find
                eligible == eligibleInactiveSources(s2.inactive, s2.ld, now,
                                                    XRD_ADAPTOR_SHORT_OPEN_DELAY)
                s3 == IF eligible # <<>> /\ Len(s2.active) = 1
                      THEN LET best == eligible[MinElement(eligible)]
                           IN [s2 EXCEPT !.active = Append(s2.active, best),
                                         !.inactive = RemoveFirst(s2.inactive, best)]
                      ELSE SwapLoop(s2, eligible, now)
            IN [s3 EXCEPT !.find =
                   IF ~found /\ timeDiffMS(now, lastSourceCheck)
                                   > 1000 * XRD_ADAPTOR_LONG_OPEN_DELAY
                   THEN probe ELSE found]

\* m_nextActiveSourceCheck after a check at `now` that leaves n active sources
NextCheckTime(now, n) ==
    IF n = 2
    THEN AddSeconds(now, XRD_ADAPTOR_LONG_OPEN_DELAY - XRD_ADAPTOR_SHORT_OPEN_DELAY)
    ELSE AddSeconds(now, XRD_ADAPTOR_SHORT_OPEN_DELAY)

(***************************************************************************)
(* OpenHandler::open(), called with m_mutex free.  asyncOK: the transport   *)
(* accepted the asynchronous File::Open.  Result: the handler's state and  *)
(* whether open() threw FileOpenError.                                     *)
(***************************************************************************)
OpenHandlerOpen_NoGuard(asyncOK) ==
    [file |-> TRUE,
     futures |-> Append(futures, 0),
     callbacks |-> IF asyncOK THEN callbacks \cup {Len(futures) + 1} ELSE callbacks,
     threw |-> ~asyncOK]

OpenHandlerOpen(asyncOK) ==
    IF m_file
    THEN [file |-> TRUE, futures |-> futures, callbacks |-> callbacks, threw |-> FALSE]
    ELSE [file |-> TRUE,
          futures |-> Append(futures, 0),
          callbacks |-> IF asyncOK THEN callbacks \cup {Len(futures) + 1} ELSE callbacks,
          threw |-> ~asyncOK]

\* the transport accepts a new asynchronous open only below the bound
AsyncOutcomes == IF Len(futures) < MaxOpens THEN BOOLEAN ELSE {FALSE}

(***************************************************************************)
(* Threads, open attempts and the requests the sources are serving         *)
(***************************************************************************)
\* an assertion failure or a crash ends the process and all its threads
Aborted == [t \in Threads |-> "aborted"]

\* the local variables of a thread that runs no operation
\* (src: the new source of a callback or the failed source of requestFailure;
\* to: new_source of requestFailure; erased: it erased src from m_activeSources)
\* (idx: the loop counter of the constructor; name, url: the file name and the
\* URL that is about to be opened, as strings of characters)
LocalIdle == [op |-> "none", now |-> 0, fut |-> 0, src |-> NoSource, ok |-> FALSE,
              to |-> NoSource, erased |-> FALSE, idx |-> 0, name |-> <<>>, url |-> <<>>]

\* outcome of an open attempt: not yet known, an exception, or the new source
Pending == 0
OpenError == -1

\* requests[s]: the number of client requests that source s is serving
RECURSIVE SumTo(_, _)
SumTo(f, n) == IF n = 0 THEN 0 ELSE f[n] + SumTo(f, n - 1)

\* requests a thread holds: those it is about to dispatch or re-dispatch
Held(t) ==
    IF pc[t] = "list_return" THEN 0
    ELSE IF local[t].op \in {"list1", "list"} THEN 2
    ELSE IF local[t].op \in {"single", "rf"} THEN 1
    ELSE 0

Outstanding ==
    SumTo(requests, MaxSources)
    + Held("app") + Held("x1") + Held("x2")

Given(reqs, s) == [reqs EXCEPT ![s] = @ + 1]
Taken(reqs, s) == [reqs EXCEPT ![s] = @ - 1]

ClearedSplit ==
    /\ tmp_iolist' = <<>>
    /\ front' = 0
    /\ req1' = <<>>
    /\ req2' = <<>>
    /\ chunk1' = 0
    /\ chunk2' = 0
    /\ rounds' = 0
    /\ splitDone' = "no"

(***************************************************************************)
(* splitClientRequest, one loop iteration per step                         *)
(***************************************************************************)
SplitCall(t) ==
    /\ pc[t] = "split_call"
    /\ Len(activeSources) >= 2
    /\ IF Len(iolist) = 0
       THEN /\ splitDone' = "ok"
            /\ pc' = [pc EXCEPT ![t] = "split_done"]
            /\ UNCHANGED <<tmp_iolist, front, req1, req2, chunk1, chunk2, rounds>>
       ELSE /\ \E cp \in ChunkPairs(quality[activeSources[1]], quality[activeSources[2]]) :
                 /\ chunk1' = cp[1]
                 /\ chunk2' = cp[2]
            /\ tmp_iolist' = iolist
            /\ front' = 0
            /\ req1' = <<>>
            /\ req2' = <<>>
            /\ rounds' = 0
            /\ pc' = [pc EXCEPT ![t] = "split_loop"]
            /\ UNCHANGED splitDone
    /\ UNCHANGED <<nonSplitVars, iolist>>

SplitRound(t) ==
    /\ pc[t] = "split_loop"
    /\ Len(tmp_iolist) - front > 0
    /\ rounds < MaxRounds
    /\ LET f == consumeChunkFront(front, tmp_iolist, req1, chunk1)
           b == consumeChunkBack(f.front, f.input, req2, chunk2)
       IN /\ front' = b.front
          /\ tmp_iolist' = b.input
          /\ req1' = f.output
          /\ req2' = b.output
    /\ rounds' = rounds + 1
    /\ UNCHANGED <<pc, nonSplitVars, iolist, chunk1, chunk2, splitDone>>

SplitFinish(t) ==
    /\ pc[t] = "split_loop"
    /\ Len(tmp_iolist) - front = 0
    /\ LET s1 == SortByOffset(req1)
           s2 == SortByOffset(req2)
           ok == /\ validateList(s1)
                 /\ validateList(s2)
                 /\ SumSizes(iolist) = SumSizes(s1) + SumSizes(s2)
       IN /\ req1' = s1
          /\ req2' = s2
          /\ splitDone' = IF ok THEN "ok" ELSE "assert"
          /\ pc' = IF ok THEN [pc EXCEPT ![t] = "split_done"] ELSE Aborted
    /\ UNCHANGED <<nonSplitVars, iolist, tmp_iolist, front, chunk1, chunk2, rounds>>


(***************************************************************************)
(* handle(ClientRequest) and handle(iolist): entry                         *)
(***************************************************************************)
HandleSingle(t) ==
    /\ pc[t] = "idle"
    /\ Outstanding + 1 <= MaxRequests
    /\ local' = [local EXCEPT ![t] = [LocalIdle EXCEPT !.op = "single", !.now = clock]]
    /\ pc' = [pc EXCEPT ![t] = "check_gate"]
    /\ UNCHANGED <<sourceLock, handlerLock, collVars, checkVars, nextInitialSourceToggle,
                   srcVars, handlerVars, requests, handed, clockVars, splitVars>>

HandleList(t, F) ==
    /\ pc[t] = "idle"
    /\ sourceLock = NoThread
    /\ Outstanding + 2 <= MaxRequests
    /\ sourceLock' = t
    /\ iolist' = F
    /\ ClearedSplit
    /\ IF Len(activeSources) = 0
       THEN /\ pc' = Aborted
            /\ UNCHANGED local
       ELSE /\ local' = [local EXCEPT ![t] =
                           [LocalIdle EXCEPT
                              !.op = IF Len(activeSources) = 1 THEN "list1" ELSE "list",
                              !.now = clock]]
            /\ pc' = [pc EXCEPT ![t] = IF Len(activeSources) = 1 THEN "check_gate"
                                       ELSE "split_call"]
    /\ UNCHANGED <<handlerLock, collVars, checkVars, nextInitialSourceToggle, srcVars,
                   handlerVars, requests, handed, clockVars>>

(***************************************************************************)
(* checkSources: the gate, checkSourcesImpl, and its call of open()        *)
(***************************************************************************)
CheckGate(t) ==
    /\ pc[t] \in {"check_gate", "split_done"}
    /\ pc' = [pc EXCEPT ![t] =
                IF /\ timeDiffMS(local[t].now, lastSourceCheck) > 1000
                   /\ timeDiffMS(local[t].now, nextActiveSourceCheck) > 0
                THEN "check_impl" ELSE "dispatch"]
    /\ UNCHANGED <<nonSplitVars, splitVars>>

CheckImpl(t, probe) ==
    /\ pc[t] = "check_impl"
    /\ sourceLock \in {NoThread, t}
    /\ LET st == checkSourcesImpl(local[t].now, probe)
       IN /\ activeSources' = st.active
          /\ inactiveSources' = st.inactive
          /\ lastDowngrade' = st.ld
          /\ IF st.find
             THEN /\ pc' = [pc EXCEPT ![t] = "check_open"]
                  /\ sourceLock' = t
                  /\ UNCHANGED nextActiveSourceCheck
             ELSE /\ pc' = [pc EXCEPT ![t] = "dispatch"]
                  /\ sourceLock' = IF local[t].op = "single" THEN NoThread ELSE t
                  /\ nextActiveSourceCheck' = NextCheckTime(local[t].now, Len(st.active))
    /\ UNCHANGED <<local, handlerLock, disabledSources, disabledSourceStrings,
                   lastSourceCheck, nextInitialSourceToggle, srcId, quality, handlerVars,
                   requests, handed, clockVars, splitVars>>

CheckOpen(t, asyncOK) ==
    /\ pc[t] = "check_open"
    /\ handlerLock = NoThread
    /\ asyncOK \in AsyncOutcomes
    /\ LET o == OpenHandlerOpen(asyncOK)
       IN /\ m_file' = o.file
          /\ futures' = o.futures
          /\ callbacks' = o.callbacks
          /\ UNCHANGED m_ignore_response
          /\ IF o.threw
             THEN /\ pc' = [pc EXCEPT ![t] = "FileOpenError"]
                  /\ local' = [local EXCEPT ![t] = LocalIdle]
                  /\ sourceLock' = NoThread
                  /\ UNCHANGED checkVars
             ELSE /\ pc' = [pc EXCEPT ![t] = "dispatch"]
                  /\ sourceLock' = IF local[t].op = "single" THEN NoThread ELSE t
                  /\ lastSourceCheck' = local[t].now
                  /\ nextActiveSourceCheck' =
                         NextCheckTime(local[t].now, Len(activeSources))
                  /\ UNCHANGED local
    /\ UNCHANGED <<handlerLock, collVars, nextInitialSourceToggle, srcVars, requests,
                   handed, clockVars, splitVars>>

(***************************************************************************)
(* pickSingleSource and Source::handle for a single request                *)
(***************************************************************************)
pickSingleSource ==
    IF Len(activeSources) = 2
    THEN [source |-> IF nextInitialSourceToggle THEN activeSources[1] ELSE activeSources[2],
          toggle |-> ~nextInitialSourceToggle]
    ELSE [source |-> activeSources[1], toggle |-> nextInitialSourceToggle]

DispatchSingle(t) ==
    /\ pc[t] = "dispatch"
    /\ local[t].op = "single"
    /\ sourceLock = NoThread
    /\ IF Len(activeSources) = 0
       THEN \* m_activeSources[0] of an empty vector
            /\ pc' = Aborted
            /\ UNCHANGED <<local, requests, nextInitialSourceToggle>>
       ELSE /\ requests' = Given(requests, pickSingleSource.source)
            /\ nextInitialSourceToggle' = pickSingleSource.toggle
            /\ pc' = [pc EXCEPT ![t] = "idle"]
            /\ local' = [local EXCEPT ![t] = LocalIdle]
    /\ UNCHANGED <<sourceLock, handlerLock, collVars, checkVars, srcVars, handlerVars,
                   handed, clockVars, splitVars>>

(***************************************************************************)
(* handle(iolist): what is given to which source after checkSources        *)
(***************************************************************************)
DispatchPlan(op) ==
    IF op = "list1" \/ Len(activeSources) = 1
    THEN <<[source |-> activeSources[1], list |-> iolist]>>
    ELSE (IF Len(req1) > 0 THEN <<[source |-> activeSources[1], list |-> req1]>> ELSE <<>>)
         \o (IF Len(req2) > 0 THEN <<[source |-> activeSources[2], list |-> req2]>>
             ELSE <<>>)

RECURSIVE GivenAll(_, _)
GivenAll(reqs, plan) ==
    IF plan = <<>> THEN reqs ELSE GivenAll(Given(reqs, plan[1].source), Tail(plan))

DispatchList(t) ==
    /\ pc[t] = "dispatch"
    /\ local[t].op \in {"list1", "list"}
    /\ handed' = DispatchPlan(local[t].op)
    /\ requests' = GivenAll(requests, DispatchPlan(local[t].op))
    /\ pc' = [pc EXCEPT ![t] = "list_return"]
    /\ UNCHANGED <<local, sourceLock, handlerLock, collVars, checkVars,
                   nextInitialSourceToggle, srcVars, handlerVars, clockVars, splitVars>>

\* handle(iolist) returns the future; its lock guard releases m_source_mutex
HandleListReturn(t) ==
    /\ pc[t] = "list_return"
    /\ pc' = [pc EXCEPT ![t] = "idle"]
    /\ local' = [local EXCEPT ![t] = LocalIdle]
    /\ sourceLock' = NoThread
    /\ handed' = <<>>
    /\ iolist' = <<>>
    /\ ClearedSplit
    /\ UNCHANGED <<handlerLock, collVars, checkVars, nextInitialSourceToggle, srcVars,
                   handlerVars, requests, clockVars>>

(***************************************************************************)
(* A request completes at its source; the dispatcher updates the quality   *)
(***************************************************************************)
Complete(s, q) ==
    /\ pc # Aborted
    /\ requests[s] > 0
    /\ quality' = [quality EXCEPT ![s] = q]
    /\ requests' = Taken(requests, s)
    /\ UNCHANGED <<pc, local, sourceLock, handlerLock, collVars, checkVars,
                   nextInitialSourceToggle, srcId, lastDowngrade, handlerVars, handed,
                   clockVars, splitVars>>

(***************************************************************************)
(* requestFailure for a request that source s is serving                   *)
(***************************************************************************)
\* a variant that looks for the failed source at position 0 only
EraseFailed_FirstOnly(src) ==
    IF Len(activeSources) > 0 /\ activeSources[1] = src THEN Tail(activeSources)
    ELSE activeSources

\* m_activeSources after the failed source was erased (positions 0 and 1)
EraseFailed(src) ==
    IF Len(activeSources) > 0 /\ activeSources[1] = src THEN Tail(activeSources)
    ELSE IF Len(activeSources) > 1 /\ activeSources[2] = src THEN RemoveAt(activeSources, 2)
    ELSE activeSources

\* a variant that never takes the early exit
InvalidResponse_Never(code) == FALSE

\* c_status.code == XrdCl::errInvalidResponse
InvalidResponse(code) == code = "errInvalidResponse"

RequestFailure(t, s, code) ==
    /\ pc[t] = "idle"
    /\ requests[s] > 0
    /\ sourceLock = NoThread
    /\ IF InvalidResponse(code)
       THEN /\ pc' = [pc EXCEPT ![t] = "FileReadError"]
            /\ requests' = Taken(requests, s)
            /\ UNCHANGED <<local, sourceLock, collVars>>
       ELSE /\ disabledSourceStrings' = disabledSourceStrings \cup {srcId[s]}
            /\ disabledSources' = disabledSources \cup {s}
            /\ activeSources' = EraseFailed(s)
            /\ UNCHANGED inactiveSources
            /\ sourceLock' = t
            /\ requests' = Taken(requests, s)
            /\ IF Len(EraseFailed(s)) = 0
               THEN /\ pc' = [pc EXCEPT ![t] = "rf_open"]
                    /\ local' = [local EXCEPT ![t] =
                                   [LocalIdle EXCEPT !.op = "rf", !.src = s,
                                       !.erased = EraseFailed(s) # activeSources]]
               ELSE /\ pc' = [pc EXCEPT ![t] = "rf_redispatch"]
                    /\ local' = [local EXCEPT ![t] =
                                   [LocalIdle EXCEPT !.op = "rf", !.src = s,
                                       !.erased = EraseFailed(s) # activeSources,
                                       !.to = EraseFailed(s)[1]]]
    /\ UNCHANGED <<handlerLock, checkVars, nextInitialSourceToggle, srcVars, handlerVars,
                   handed, clockVars, splitVars>>

\* a variant that goes on to the wait with the lock held
SentryUnlock_Skipped(t) == sourceLock

\* sentry.unlock() before future.wait_for
SentryUnlock(t) == IF sourceLock = t THEN NoThread ELSE sourceLock

RFOpen(t, asyncOK) ==
    /\ pc[t] = "rf_open"
    /\ handlerLock = NoThread
    /\ asyncOK \in AsyncOutcomes
    /\ LET o == OpenHandlerOpen(asyncOK)
       IN /\ m_file' = o.file
          /\ futures' = o.futures
          /\ callbacks' = o.callbacks
          /\ UNCHANGED m_ignore_response
          /\ sourceLock' = IF o.threw THEN NoThread ELSE SentryUnlock(t)
          /\ IF o.threw
             THEN /\ pc' = [pc EXCEPT ![t] = "FileOpenError"]
                  /\ local' = [local EXCEPT ![t] = LocalIdle]
                  /\ UNCHANGED lastSourceCheck
             ELSE /\ pc' = [pc EXCEPT ![t] = "rf_wait"]
                  /\ local' = [local EXCEPT ![t].fut = Len(o.futures)]
                  /\ lastSourceCheck' = clock
    /\ UNCHANGED <<handlerLock, collVars, nextActiveSourceCheck, nextInitialSourceToggle,
                   srcVars, requests, handed, clockVars, splitVars>>

\* future.wait_for() timed out
RFTimeout(t) ==
    /\ pc[t] = "rf_wait"
    /\ futures[local[t].fut] = Pending
    /\ sourceLock = NoThread
    /\ pc' = [pc EXCEPT ![t] = "FileOpenError"]
    /\ local' = [local EXCEPT ![t] = LocalIdle]
    /\ UNCHANGED <<sourceLock, handlerLock, collVars, checkVars, nextInitialSourceToggle,
                   srcVars, handlerVars, requests, handed, clockVars, splitVars>>

\* future.get() rethrows the exception of the open
RFOpenFailed(t) ==
    /\ pc[t] = "rf_wait"
    /\ futures[local[t].fut] = OpenError
    /\ pc' = [pc EXCEPT ![t] = "FileOpenError"]
    /\ local' = [local EXCEPT ![t] = LocalIdle]
    /\ UNCHANGED <<sourceLock, handlerLock, collVars, checkVars, nextInitialSourceToggle,
                   srcVars, handlerVars, requests, handed, clockVars, splitVars>>

\* future.get() returned the new source; the lock is taken again
RFInstall(t) ==
    /\ pc[t] = "rf_wait"
    /\ futures[local[t].fut] > 0
    /\ sourceLock = NoThread
    /\ IF srcId[futures[local[t].fut]] \in disabledSourceStrings
       THEN /\ pc' = [pc EXCEPT ![t] = "FileOpenError"]
            /\ local' = [local EXCEPT ![t] = LocalIdle]
            /\ UNCHANGED <<activeSources, sourceLock>>
       ELSE /\ pc' = [pc EXCEPT ![t] = "rf_redispatch"]
            /\ local' = [local EXCEPT ![t].to = futures[local[t].fut]]
            /\ activeSources' = Append(activeSources, futures[local[t].fut])
            /\ sourceLock' = t
    /\ UNCHANGED <<handlerLock, inactiveSources, disabledSources,
                   disabledSourceStrings, checkVars, nextInitialSourceToggle, srcVars,
                   handlerVars, requests, handed, clockVars, splitVars>>

\* new_source->handle(c_ptr); requestFailure returns and releases the lock
RFRedispatch(t) ==
    /\ pc[t] = "rf_redispatch"
    /\ requests' = Given(requests, local[t].to)
    /\ pc' = [pc EXCEPT ![t] = "idle"]
    /\ local' = [local EXCEPT ![t] = LocalIdle]
    /\ sourceLock' = NoThread
    /\ UNCHANGED <<handlerLock, collVars, checkVars, nextInitialSourceToggle, srcVars,
                   handlerVars, handed, clockVars, splitVars>>

(***************************************************************************)
(* OpenHandler::HandleResponseWithHosts and RequestManager::handleOpen     *)
(***************************************************************************)
\* the response to open attempt a arrives: status OK from server id
CbOpened(t, a, id, q) ==
    /\ pc[t] = "idle"
    /\ a \in callbacks
    /\ handlerLock = NoThread
    /\ Len(srcId) < MaxSources
    /\ ~m_ignore_response
    /\ callbacks' = callbacks \ {a}
    /\ srcId' = Append(srcId, id)
    /\ quality' = Append(quality, q)
    /\ lastDowngrade' = Append(lastDowngrade, 0)
    /\ m_file' = FALSE
    /\ futures' = [futures EXCEPT ![a] = Len(srcId) + 1]
    /\ pc' = [pc EXCEPT ![t] = "cb_handleOpen"]
    /\ local' = [local EXCEPT ![t] = [LocalIdle EXCEPT !.op = "cb", !.ok = TRUE,
                                                       !.src = Len(srcId) + 1, !.fut = a]]
    /\ UNCHANGED <<sourceLock, handlerLock, collVars, checkVars, nextInitialSourceToggle,
                   m_ignore_response, requests, handed, clockVars, splitVars>>

\* the response to open attempt a arrives: an error status
CbFailed(t, a) ==
    /\ pc[t] = "idle"
    /\ a \in callbacks
    /\ handlerLock = NoThread
    /\ ~m_ignore_response
    /\ callbacks' = callbacks \ {a}
    /\ m_file' = FALSE
    /\ handlerLock' = t
    /\ pc' = [pc EXCEPT ![t] = "cb_addConnections"]
    /\ local' = [local EXCEPT ![t] = [LocalIdle EXCEPT !.op = "cb", !.ok = FALSE, !.fut = a]]
    /\ UNCHANGED <<sourceLock, collVars, checkVars, nextInitialSourceToggle, srcVars,
                   futures, m_ignore_response, requests, handed, clockVars, splitVars>>

\* error path: addConnections takes m_source_mutex, then set_exception
CbAddConnections(t) ==
    /\ pc[t] = "cb_addConnections"
    /\ sourceLock = NoThread
    /\ futures' = [futures EXCEPT ![local[t].fut] = OpenError]
    /\ handlerLock' = NoThread
    /\ pc' = [pc EXCEPT ![t] = "cb_handleOpen"]
    /\ UNCHANGED <<local, sourceLock, collVars, checkVars, nextInitialSourceToggle, srcVars,
                   m_file, callbacks, m_ignore_response, requests, handed, clockVars, splitVars>>

HasId(l, id) == \E i \in 1..Len(l) : srcId[l[i]] = id

\* a variant that leaves the schedule of the next check alone
handleOpen_NoDefer(ok, source) ==
    LET same == [active |-> activeSources, inactive |-> inactiveSources,
                 next |-> nextActiveSourceCheck]
    IN IF ~ok THEN same
       ELSE IF HasId(activeSources, srcId[source]) THEN same
       ELSE IF HasId(inactiveSources, srcId[source]) THEN same
       ELSE IF Len(activeSources) < 2
       THEN [active |-> Append(activeSources, source), inactive |-> inactiveSources,
             next |-> nextActiveSourceCheck]
       ELSE [active |-> activeSources, inactive |-> Append(inactiveSources, source),
             next |-> nextActiveSourceCheck]

\* the collections and m_nextActiveSourceCheck after handleOpen(status, source)
handleOpen(ok, source) ==
    LET deferred == AddSeconds(nextActiveSourceCheck,
                        XRD_ADAPTOR_LONG_OPEN_DELAY - XRD_ADAPTOR_SHORT_OPEN_DELAY)
        same == [active |-> activeSources, inactive |-> inactiveSources, next |-> deferred]
    IN IF ~ok THEN same
       ELSE IF HasId(activeSources, srcId[source]) THEN same
       ELSE IF HasId(inactiveSources, srcId[source]) THEN same
       ELSE IF Len(activeSources) < 2
       THEN [active |-> Append(activeSources, source), inactive |-> inactiveSources,
             next |-> nextActiveSourceCheck]
       ELSE [active |-> activeSources, inactive |-> Append(inactiveSources, source),
             next |-> nextActiveSourceCheck]

CbHandleOpen(t) ==
    /\ pc[t] = "cb_handleOpen"
    /\ sourceLock = NoThread
    /\ LET h == handleOpen(local[t].ok, local[t].src)
       IN /\ activeSources' = h.active
          /\ inactiveSources' = h.inactive
          /\ nextActiveSourceCheck' = h.next
    /\ pc' = [pc EXCEPT ![t] = "idle"]
    /\ local' = [local EXCEPT ![t] = LocalIdle]
    /\ UNCHANGED <<sourceLock, handlerLock, disabledSources, disabledSourceStrings,
                   lastSourceCheck, nextInitialSourceToggle, srcVars, handlerVars, requests,
                   handed, clockVars, splitVars>>

(***************************************************************************)
(* The caller has received the exception; the clock                        *)
(***************************************************************************)
Caught(t) ==
    /\ pc[t] \in {"FileReadError", "FileOpenError"}
    /\ pc' = [pc EXCEPT ![t] = "idle"]
    /\ UNCHANGED <<nonSplitVars, splitVars>>

\* the clock is read at the entry of an operation: it advances between
\* the operations of the threads
Tick(d) ==
    /\ \A t \in Threads : pc[t] = "idle"
    /\ ticks < MaxTicks
    /\ clock' = clock + d
    /\ ticks' = ticks + 1
    /\ UNCHANGED <<pc, local, sourceLock, handlerLock, collVars, checkVars,
                   nextInitialSourceToggle, srcVars, handlerVars, requests, handed,
                   splitVars>>

(***************************************************************************)
(* The manager after its constructor opened the file at the first attempt  *)
(***************************************************************************)
Init ==
    /\ pc = [t \in Threads |-> "idle"]
    /\ local = [t \in Threads |-> LocalIdle]
    /\ sourceLock = NoThread
    /\ handlerLock = NoThread
    /\ activeSources = <<1>>
    /\ inactiveSources = <<>>
    /\ disabledSources = {}
    /\ disabledSourceStrings = {}
    /\ lastSourceCheck = StartTime
    /\ nextActiveSourceCheck = AddSeconds(StartTime, XRD_ADAPTOR_SHORT_OPEN_DELAY)
    /\ nextInitialSourceToggle = FALSE
    /\ srcId = <<"a:1094">>
    /\ quality \in { <<q>> : q \in QualitySet }
    /\ lastDowngrade = <<0>>
    /\ m_file = FALSE
    /\ futures = <<>>
    /\ callbacks = {}
    /\ m_ignore_response = FALSE
    /\ requests = [s \in 1..MaxSources |-> 0]
    /\ handed = <<>>
    /\ clock = StartTime
    /\ ticks = 0
    /\ iolist = <<>>
    /\ tmp_iolist = <<>>
    /\ front = 0
    /\ req1 = <<>>
    /\ req2 = <<>>
    /\ chunk1 = 0
    /\ chunk2 = 0
    /\ rounds = 0
    /\ splitDone = "no"

Next ==
    \/ \E t \in AppThreads : HandleSingle(t)
    \/ \E t \in AppThreads, F \in HandleInputs : HandleList(t, F)
    \/ \E t \in Threads : SplitCall(t)
    \/ \E t \in Threads : SplitRound(t)
    \/ \E t \in Threads : SplitFinish(t)
    \/ \E t \in Threads : CheckGate(t)
    \/ \E t \in Threads, probe \in BOOLEAN : CheckImpl(t, probe)
    \/ \E t \in Threads, asyncOK \in BOOLEAN : CheckOpen(t, asyncOK)
    \/ \E t \in Threads : DispatchSingle(t)
    \/ \E t \in Threads : DispatchList(t)
    \/ \E t \in Threads : HandleListReturn(t)
    \/ \E s \in 1..MaxSources, q \in QualitySet : Complete(s, q)
    \/ \E t \in Threads, s \in 1..MaxSources, code \in ReadErrors :
           RequestFailure(t, s, code)
    \/ \E t \in Threads, asyncOK \in BOOLEAN : RFOpen(t, asyncOK)
    \/ \E t \in Threads : RFTimeout(t)
    \/ \E t \in Threads : RFOpenFailed(t)
    \/ \E t \in Threads : RFInstall(t)
    \/ \E t \in Threads : RFRedispatch(t)
    \/ \E t \in XrdThreads, a \in callbacks, id \in ServerIds, q \in QualitySet :
           CbOpened(t, a, id, q)
    \/ \E t \in XrdThreads, a \in callbacks : CbFailed(t, a)
    \/ \E t \in Threads : CbAddConnections(t)
    \/ \E t \in Threads : CbHandleOpen(t)
    \/ \E t \in Threads : Caught(t)
    \/ \E d \in TickSteps : Tick(d)

Spec == Init /\ [][Next]_vars

(***************************************************************************)
(* Specification of the split alone: a thread inside handle(iolist) with   *)
(* two active sources, about to call splitClientRequest                    *)
(***************************************************************************)
InitSplit ==
    /\ pc = [t \in Threads |-> IF t = "app" THEN "split_call" ELSE "idle"]
    /\ local = [t \in Threads |->
                  IF t = "app" THEN [LocalIdle EXCEPT !.op = "list", !.now = StartTime]
                  ELSE LocalIdle]
    /\ sourceLock = "app"
    /\ handlerLock = NoThread
    /\ activeSources = <<1, 2>>
    /\ inactiveSources = <<>>
    /\ disabledSources = {}
    /\ disabledSourceStrings = {}
    /\ lastSourceCheck = StartTime
    /\ nextActiveSourceCheck = StartTime + XRD_ADAPTOR_SHORT_OPEN_DELAY * 1000
    /\ nextInitialSourceToggle = FALSE
    /\ srcId = <<"a:1094", "b:1094">>
    /\ \E qp \in QualityPairs : quality = <<qp[1], qp[2]>>
    /\ lastDowngrade = <<0, 0>>
    /\ m_file = FALSE
    /\ futures = <<2>>
    /\ callbacks = {}
    /\ m_ignore_response = FALSE
    /\ requests = [s \in 1..MaxSources |-> 0]
    /\ handed = <<>>
    /\ clock = StartTime
    /\ ticks = 0
    /\ iolist \in SplitInputs
    /\ tmp_iolist = <<>>
    /\ front = 0
    /\ req1 = <<>>
    /\ req2 = <<>>
    /\ chunk1 = 0
    /\ chunk2 = 0
    /\ rounds = 0
    /\ splitDone = "no"

NextSplit == \E t \in Threads : SplitCall(t) \/ SplitRound(t) \/ SplitFinish(t)

SpecSplit == InitSplit /\ [][NextSplit]_vars

(***************************************************************************)
(* Specification of handle(iolist) called by one thread on a manager that  *)
(* has its first source only, or has opened and installed a second one     *)
(***************************************************************************)
InitHandle ==
    /\ pc = [t \in Threads |-> "idle"]
    /\ local = [t \in Threads |-> LocalIdle]
    /\ sourceLock = NoThread
    /\ handlerLock = NoThread
    /\ \/ /\ activeSources = <<1>>
          /\ srcId = <<"a:1094">>
          /\ quality \in { <<q>> : q \in QualitySet }
          /\ lastDowngrade = <<0>>
          /\ futures = <<>>
       \/ /\ activeSources = <<1, 2>>
          /\ srcId = <<"a:1094", "b:1094">>
          /\ \E qp \in QualityPairs : quality = <<qp[1], qp[2]>>
          /\ lastDowngrade = <<0, 0>>
          /\ futures = <<2>>
    /\ inactiveSources = <<>>
    /\ disabledSources = {}
    /\ disabledSourceStrings = {}
    /\ lastSourceCheck = StartTime
    /\ nextActiveSourceCheck = AddSeconds(StartTime, XRD_ADAPTOR_SHORT_OPEN_DELAY)
    /\ nextInitialSourceToggle = FALSE
    /\ m_file = FALSE
    /\ callbacks = {}
    /\ m_ignore_response = FALSE
    /\ requests = [s \in 1..MaxSources |-> 0]
    /\ handed = <<>>
    /\ clock = StartTime
    /\ ticks = 0
    /\ iolist = <<>>
    /\ tmp_iolist = <<>>
    /\ front = 0
    /\ req1 = <<>>
    /\ req2 = <<>>
    /\ chunk1 = 0
    /\ chunk2 = 0
    /\ rounds = 0
    /\ splitDone = "no"

NextHandle ==
    \/ \E t \in AppThreads, F \in HandleInputsWide : HandleList(t, F)
    \/ \E t \in AppThreads : SplitCall(t)
    \/ \E t \in AppThreads : SplitRound(t)
    \/ \E t \in AppThreads : SplitFinish(t)
    \/ \E t \in AppThreads : CheckGate(t)
    \/ \E t \in AppThreads, probe \in BOOLEAN : CheckImpl(t, probe)
    \/ \E t \in AppThreads, asyncOK \in BOOLEAN : CheckOpen(t, asyncOK)
    \/ \E t \in AppThreads : DispatchList(t)
    \/ \E t \in AppThreads : HandleListReturn(t)
    \/ \E s \in 1..MaxSources, q \in QualitySet : Complete(s, q)
    \/ \E t \in AppThreads : Caught(t)
    \/ \E d \in TickSteps : Tick(d)

SpecHandle == InitHandle /\ [][NextHandle]_vars

(***************************************************************************)
(* OpenHandler::~OpenHandler against OpenHandler::HandleResponseWithHosts, *)
(* statement by statement.  The destructor runs on the thread that         *)
(* destroys the manager, the callback on a transport thread.               *)
(***************************************************************************)
\* m_shared_future.valid(): open() has made a future
FutureValid == Len(futures) >= 1

\* m_shared_future is ready: the promise holds a value or an exception
FutureReady == FutureValid /\ futures[Len(futures)] # Pending

\* the positions of a callback between its entry and its return
CallbackPositions == {"hr_clear", "hr_status", "hr_unlock", "cb_addConnections",
                      "cb_handleOpen"}

\* m_ignore_response.test_and_set(); without a valid future there is no wait
DtorTestAndSet(t) ==
    /\ pc[t] = "idle"
    /\ m_ignore_response' = TRUE
    /\ pc' = [pc EXCEPT ![t] = IF FutureValid THEN "dtor_wait" ELSE "dtor_done"]
    /\ local' = [local EXCEPT ![t] = [LocalIdle EXCEPT !.op = "dtor", !.ok = ~FutureValid]]
    /\ UNCHANGED <<sourceLock, handlerLock, collVars, checkVars, nextInitialSourceToggle,
                   srcVars, m_file, futures, callbacks, requests, handed, clockVars,
                   splitVars>>

\* m_shared_future.wait_for(m_timeout + 10 s) ends: the future is ready
DtorReady(t) ==
    /\ pc[t] = "dtor_wait"
    /\ FutureReady
    /\ pc' = [pc EXCEPT ![t] = "dtor_done"]
    /\ local' = [local EXCEPT ![t].ok = TRUE]
    /\ UNCHANGED <<sourceLock, handlerLock, collVars, checkVars, nextInitialSourceToggle,
                   srcVars, handlerVars, requests, handed, clockVars, splitVars>>

\* m_shared_future.wait_for(m_timeout + 10 s) ends: the time is over
DtorTimeout(t) ==
    /\ pc[t] = "dtor_wait"
    /\ ~FutureReady
    /\ pc' = [pc EXCEPT ![t] = "dtor_done"]
    /\ local' = [local EXCEPT ![t].ok = FALSE]
    /\ UNCHANGED <<sourceLock, handlerLock, collVars, checkVars, nextInitialSourceToggle,
                   srcVars, handlerVars, requests, handed, clockVars, splitVars>>

\* std::atomic_flag::test_and_set: the old value, and the flag set
TestAndSet(flag) == [old |-> flag, new |-> TRUE]

\* the response to attempt a arrives: lock m_mutex, test_and_set; if the flag
\* was set the callback deletes its arguments and returns
HRTestAndSet(t, a) ==
    /\ pc[t] = "idle"
    /\ a \in callbacks
    /\ handlerLock = NoThread
    /\ callbacks' = callbacks \ {a}
    /\ m_ignore_response' = TestAndSet(m_ignore_response).new
    /\ IF TestAndSet(m_ignore_response).old
       THEN UNCHANGED <<pc, local, handlerLock>>
       ELSE /\ handlerLock' = t
            /\ pc' = [pc EXCEPT ![t] = "hr_clear"]
            /\ local' = [local EXCEPT ![t] = [LocalIdle EXCEPT !.op = "cb", !.fut = a]]
    /\ UNCHANGED <<sourceLock, collVars, checkVars, nextInitialSourceToggle, srcVars, m_file,
                   futures, requests, handed, clockVars, splitVars>>

\* m_ignore_response.clear()
HRClear(t) ==
    /\ pc[t] = "hr_clear"
    /\ m_ignore_response' = FALSE
    /\ pc' = [pc EXCEPT ![t] = "hr_status"]
    /\ UNCHANGED <<local, sourceLock, handlerLock, collVars, checkVars,
                   nextInitialSourceToggle, srcVars, m_file, futures, callbacks, requests,
                   handed, clockVars, splitVars>>

\* status OK from server id: the Source takes m_file, m_promise.set_value
HROpened(t, id, q) ==
    /\ pc[t] = "hr_status"
    /\ Len(srcId) < MaxSources
    /\ srcId' = Append(srcId, id)
    /\ quality' = Append(quality, q)
    /\ lastDowngrade' = Append(lastDowngrade, 0)
    /\ m_file' = FALSE
    /\ futures' = [futures EXCEPT ![local[t].fut] = Len(srcId) + 1]
    /\ pc' = [pc EXCEPT ![t] = "hr_unlock"]
    /\ local' = [local EXCEPT ![t].ok = TRUE, ![t].src = Len(srcId) + 1]
    /\ UNCHANGED <<sourceLock, handlerLock, collVars, checkVars, nextInitialSourceToggle,
                   callbacks, m_ignore_response, requests, handed, clockVars, splitVars>>

\* an error status: m_file.reset(), then addConnections and set_exception
HRError(t) ==
    /\ pc[t] = "hr_status"
    /\ m_file' = FALSE
    /\ pc' = [pc EXCEPT ![t] = "cb_addConnections"]
    /\ local' = [local EXCEPT ![t].ok = FALSE]
    /\ UNCHANGED <<sourceLock, handlerLock, collVars, checkVars, nextInitialSourceToggle,
                   srcVars, futures, callbacks, m_ignore_response, requests, handed,
                   clockVars, splitVars>>

\* the scope of the lock_guard on m_mutex ends
HRUnlock(t) ==
    /\ pc[t] = "hr_unlock"
    /\ handlerLock' = NoThread
    /\ pc' = [pc EXCEPT ![t] = "cb_handleOpen"]
    /\ UNCHANGED <<local, sourceLock, collVars, checkVars, nextInitialSourceToggle, srcVars,
                   handlerVars, requests, handed, clockVars, splitVars>>

\* a manager that is destroyed: no open was ever asked for, or one is in
\* flight, or the last one has been answered and its source installed
InitDtor ==
    /\ pc = [t \in Threads |-> "idle"]
    /\ local = [t \in Threads |-> LocalIdle]
    /\ sourceLock = NoThread
    /\ handlerLock = NoThread
    /\ \/ /\ activeSources = <<1>>
          /\ srcId = <<"a:1094">>
          /\ quality \in { <<q>> : q \in QualitySet }
          /\ lastDowngrade = <<0>>
          /\ \/ m_file = FALSE /\ futures = <<>> /\ callbacks = {}
             \/ m_file = TRUE /\ futures = <<Pending>> /\ callbacks = {1}
       \/ /\ activeSources = <<1, 2>>
          /\ srcId = <<"a:1094", "b:1094">>
          /\ \E qp \in QualityPairs : quality = <<qp[1], qp[2]>>
          /\ lastDowngrade = <<0, 0>>
          /\ m_file = FALSE /\ futures = <<2>> /\ callbacks = {}
    /\ inactiveSources = <<>>
    /\ disabledSources = {}
    /\ disabledSourceStrings = {}
    /\ lastSourceCheck = StartTime
    /\ nextActiveSourceCheck = AddSeconds(StartTime, XRD_ADAPTOR_SHORT_OPEN_DELAY)
    /\ nextInitialSourceToggle = FALSE
    /\ m_ignore_response = FALSE
    /\ requests = [s \in 1..MaxSources |-> 0]
    /\ handed = <<>>
    /\ clock = StartTime
    /\ ticks = 0
    /\ iolist = <<>>
    /\ tmp_iolist = <<>>
    /\ front = 0
    /\ req1 = <<>>
    /\ req2 = <<>>
    /\ chunk1 = 0
    /\ chunk2 = 0
    /\ rounds = 0
    /\ splitDone = "no"

NextDtor ==
    \/ \E t \in AppThreads : DtorTestAndSet(t)
    \/ \E t \in AppThreads : DtorReady(t)
    \/ \E t \in AppThreads : DtorTimeout(t)
    \/ \E t \in XrdThreads, a \in callbacks : HRTestAndSet(t, a)
    \/ \E t \in XrdThreads : HRClear(t)
    \/ \E t \in XrdThreads, id \in ServerIds, q \in QualitySet : HROpened(t, id, q)
    \/ \E t \in XrdThreads : HRError(t)
    \/ \E t \in XrdThreads : HRUnlock(t)
    \/ \E t \in XrdThreads : CbAddConnections(t)
    \/ \E t \in XrdThreads : CbHandleOpen(t)

SpecDtor == InitDtor /\ [][NextDtor]_vars

(***************************************************************************)
(* Specification of consecutive health checks at one value of now: thread  *)
(* app is inside handle() and about to call checkSources; after it has     *)
(* left handle(), thread x1 calls handle() while the clock stands still.   *)
(* No callback and no requestFailure runs.                                 *)
(***************************************************************************)
\* the time since the last check that asked for an open
ElapsedSet == {d1 + d2 : d1, d2 \in TickSteps \cup {0}}

FirstCaller == "app"
SecondCaller == "x1"

InitCheck ==
    /\ pc = [t \in Threads |-> IF t = FirstCaller THEN "check_gate" ELSE "idle"]
    /\ \E e \in ElapsedSet : clock = StartTime + e
    /\ local = [t \in Threads |->
                  IF t = FirstCaller THEN [LocalIdle EXCEPT !.op = "single", !.now = clock]
                  ELSE LocalIdle]
    /\ sourceLock = NoThread
    /\ handlerLock = NoThread
    /\ \/ /\ activeSources = <<1>>
          /\ srcId = <<"a:1094">>
          /\ quality \in { <<q>> : q \in QualitySet }
          /\ lastDowngrade = <<0>>
          /\ futures = <<>>
       \/ /\ activeSources = <<1, 2>>
          /\ srcId = <<"a:1094", "b:1094">>
          /\ \E qp \in QualityPairs : quality = <<qp[1], qp[2]>>
          /\ lastDowngrade = <<0, 0>>
          /\ futures = <<2>>
    /\ inactiveSources = <<>>
    /\ disabledSources = {}
    /\ disabledSourceStrings = {}
    /\ lastSourceCheck = StartTime
    /\ nextActiveSourceCheck = AddSeconds(StartTime, XRD_ADAPTOR_SHORT_OPEN_DELAY)
    /\ nextInitialSourceToggle = FALSE
    /\ m_file = FALSE
    /\ callbacks = {}
    /\ m_ignore_response = FALSE
    /\ requests = [s \in 1..MaxSources |-> 0]
    /\ handed = <<>>
    /\ ticks = 0
    /\ iolist = <<>>
    /\ tmp_iolist = <<>>
    /\ front = 0
    /\ req1 = <<>>
    /\ req2 = <<>>
    /\ chunk1 = 0
    /\ chunk2 = 0
    /\ rounds = 0
    /\ splitDone = "no"

\* the second caller enters handle() when the first has left it
SecondCall(t) ==
    /\ t = SecondCaller
    /\ pc[FirstCaller] = "idle"
    /\ HandleSingle(t)

NextCheck ==
    \/ \E t \in Threads : SecondCall(t)
    \/ \E t \in Threads : CheckGate(t)
    \/ \E t \in Threads, probe \in BOOLEAN : CheckImpl(t, probe)
    \/ \E t \in Threads, asyncOK \in BOOLEAN : CheckOpen(t, asyncOK)
    \/ \E t \in Threads : DispatchSingle(t)
    \/ \E t \in Threads : Caught(t)

SpecCheck == InitCheck /\ [][NextCheck]_vars

(***************************************************************************)
(* RequestManager::RequestManager: the loop of synchronous open attempts   *)
(***************************************************************************)
\* const int retries = 5
retries == 5

\* the characters of a server id
IdChars(id) ==
    CASE id = "a:1094" -> <<"a", ":", "1", "0", "9", "4">>
      [] id = "b:1094" -> <<"b", ":", "1", "0", "9", "4">>
      [] id = "c:1094" -> <<"c", ":", "1", "0", "9", "4">>
      [] id = "d:1094" -> <<"d", ":", "1", "0", "9", "4">>
      [] OTHER -> <<>>

\* std::string::find: the position (0-based) of the first ch, or the length
\* of the string where substr(0, npos) ends
Find(str, ch) ==
    IF \E i \in 1..Len(str) : str[i] = ch
    THEN (CHOOSE i \in 1..Len(str) : str[i] = ch /\ \A j \in 1..(i - 1) : str[j] # ch) - 1
    ELSE Len(str)

\* id.substr(0, id.find(":"))
HostOf(id) == SubSeq(IdChars(id), 1, Find(IdChars(id), ":"))

\* std::set<std::string> iterates in ascending order
SortedIds == <<"a:1094", "b:1094", "c:1094", "d:1094">>

\* prepareOpaqueString(): the hosts after tried=, in the order written
prepareOpaqueString ==
    [i \in 1..Len(activeSources) |-> HostOf(srcId[activeSources[i]])]
    \o [i \in 1..Len(inactiveSources) |-> HostOf(srcId[inactiveSources[i]])]
    \o LET dis == SelectSeq(SortedIds, LAMBDA id : id \in disabledSourceStrings)
       IN [i \in 1..Len(dis) |-> HostOf(dis[i])]

\* new_filename: m_name with the opaque string appended
NewFilename == [name |-> "m_name", tried |-> prepareOpaqueString]

\* the LastURL property of a failed File: none, the URL that was asked for,
\* or the URL of the server the redirector sent the client to
UrlNames == {"", "m_name", "redirected"}
LastUrl(name) ==
    IF name = "" THEN [name |-> "", tried |-> <<>>]
    ELSE [name |-> name, tried |-> prepareOpaqueString]
LastUrls == {LastUrl(name) : name \in UrlNames}

\* what a synchronous File::Open can answer: OK from a server with a
\* quality, or an error with the properties DataServer and LastURL
CtorResults ==
    [ok : {TRUE}, dataServer : ServerIds, q : QualitySet, lastUrl : {NewFilename}]
    \cup [ok : {FALSE}, dataServer : ServerIds \cup {""}, q : {0}, lastUrl : LastUrls]

\* a variant that forgets the failed server
DisabledAfter_Unchanged(dataServer) == disabledSourceStrings
\* if (dataServer.size()) m_disabledSourceStrings.insert(dataServer)
DisabledAfter(dataServer) ==
    IF dataServer # "" THEN disabledSourceStrings \cup {dataServer}
    ELSE disabledSourceStrings

\* a variant that schedules the first check as if two sources were active
FirstCheckTime_Long(ts) == AddSeconds(ts, XRD_ADAPTOR_LONG_OPEN_DELAY)
\* ts.tv_sec += XRD_ADAPTOR_SHORT_OPEN_DELAY; m_nextActiveSourceCheck = ts
FirstCheckTime(ts) == AddSeconds(ts, XRD_ADAPTOR_SHORT_OPEN_DELAY)

\* one iteration of the loop, with what follows the loop when it is left
CtorAttempt(t, res) ==
    /\ pc[t] = "ctor"
    /\ local[t].idx < retries
    /\ res \in CtorResults
    /\ IF res.ok
       THEN /\ srcId' = Append(srcId, res.dataServer)
            /\ quality' = Append(quality, res.q)
            /\ lastDowngrade' = Append(lastDowngrade, 0)
            /\ activeSources' = Append(activeSources, Len(srcId) + 1)
            /\ lastSourceCheck' = clock
            /\ nextActiveSourceCheck' = FirstCheckTime(clock)
            /\ pc' = [pc EXCEPT ![t] = "idle"]
            /\ local' = [local EXCEPT ![t] = LocalIdle]
            /\ UNCHANGED disabledSourceStrings
       ELSE /\ UNCHANGED <<srcVars, activeSources, checkVars>>
            /\ IF res.dataServer \in disabledSourceStrings
               THEN /\ pc' = [pc EXCEPT ![t] = "FileOpenError"]
                    /\ UNCHANGED <<local, disabledSourceStrings>>
               ELSE /\ disabledSourceStrings' = DisabledAfter(res.dataServer)
                    /\ IF res.lastUrl = NewFilename
                       THEN /\ pc' = [pc EXCEPT ![t] = "FileOpenError"]
                            /\ UNCHANGED local
                       ELSE /\ local' = [local EXCEPT ![t].idx = local[t].idx + 1]
                            /\ pc' = [pc EXCEPT ![t] =
                                        IF local[t].idx + 1 < retries THEN "ctor"
                                        ELSE "FileOpenError"]
    /\ UNCHANGED <<sourceLock, handlerLock, inactiveSources, disabledSources,
                   nextInitialSourceToggle, handlerVars, requests, handed, clockVars,
                   splitVars>>

\* the members before the body of the constructor runs
InitCtor ==
    /\ pc = [t \in Threads |-> IF t \in AppThreads THEN "ctor" ELSE "idle"]
    /\ local = [t \in Threads |->
                  IF t \in AppThreads THEN [LocalIdle EXCEPT !.op = "ctor"] ELSE LocalIdle]
    /\ sourceLock = NoThread
    /\ handlerLock = NoThread
    /\ activeSources = <<>>
    /\ inactiveSources = <<>>
    /\ disabledSources = {}
    /\ disabledSourceStrings = {}
    /\ lastSourceCheck = 0
    /\ nextActiveSourceCheck = 0
    /\ nextInitialSourceToggle = FALSE
    /\ srcId = <<>>
    /\ quality = <<>>
    /\ lastDowngrade = <<>>
    /\ m_file = FALSE
    /\ futures = <<>>
    /\ callbacks = {}
    /\ m_ignore_response = FALSE
    /\ requests = [s \in 1..MaxSources |-> 0]
    /\ handed = <<>>
    /\ \E e \in ElapsedSet : clock = StartTime + e
    /\ ticks = 0
    /\ iolist = <<>>
    /\ tmp_iolist = <<>>
    /\ front = 0
    /\ req1 = <<>>
    /\ req2 = <<>>
    /\ chunk1 = 0
    /\ chunk2 = 0
    /\ rounds = 0
    /\ splitDone = "no"

NextCtor ==
    \E t \in AppThreads, ok \in BOOLEAN, dataServer \in ServerIds \cup {""},
       q \in QualitySet \cup {0}, name \in UrlNames :
        CtorAttempt(t, [ok |-> ok, dataServer |-> dataServer, q |-> q,
                        lastUrl |-> LastUrl(name)])

SpecCtor == InitCtor /\ [][NextCtor]_vars

(***************************************************************************)
(* Specification of one health check on a manager with two active sources, *)
(* alone or with one or two more sources that are inactive, or with one    *)
(* active source and one or two inactive ones.  A thread is inside         *)
(* handle() and about to call checkSources.                                *)
(***************************************************************************)
\* qualities around the thresholds of compareSources
QualityLevels == {60, 260, 300, 5130, 5200, 6000}
\* quality of the inactive source
InactiveQualities == {10, 300}
\* the time of a downgrade well before the constructor's first check
OldDowngrade == StartTime - 5000

InitCompare ==
    /\ pc = [t \in Threads |-> IF t = FirstCaller THEN "check_gate" ELSE "idle"]
    /\ \E e \in ElapsedSet : clock = StartTime + e
    /\ local = [t \in Threads |->
                  IF t = FirstCaller THEN [LocalIdle EXCEPT !.op = "single", !.now = clock]
                  ELSE LocalIdle]
    /\ sourceLock = NoThread
    /\ handlerLock = NoThread
    /\ \/ /\ activeSources = <<1, 2>>
          /\ inactiveSources = <<>>
          /\ srcId = <<"a:1094", "b:1094">>
          /\ \E qa, qb \in QualityLevels : quality = <<qa, qb>>
          /\ lastDowngrade = <<0, 0>>
       \/ /\ activeSources = <<1, 2>>
          /\ inactiveSources = <<3>>
          /\ srcId = <<"a:1094", "b:1094", "c:1094">>
          /\ \E qa, qb \in QualityLevels, qc \in InactiveQualities : quality = <<qa, qb, qc>>
          /\ \E la, lb \in {0, OldDowngrade}, lc \in {OldDowngrade, StartTime} :
                 lastDowngrade = <<la, lb, lc>>
       \/ /\ activeSources = <<1>>
          /\ inactiveSources = <<2>>
          /\ srcId = <<"a:1094", "b:1094">>
          /\ \E qa \in QualityLevels, qb \in InactiveQualities : quality = <<qa, qb>>
          /\ \E la \in {0, OldDowngrade}, lb \in {OldDowngrade, StartTime} :
                 lastDowngrade = <<la, lb>>
       \/ /\ activeSources = <<1>>
          /\ inactiveSources = <<2, 3>>
          /\ srcId = <<"a:1094", "b:1094", "c:1094">>
          /\ \E qa \in QualityLevels, qb, qc \in InactiveQualities :
                 quality = <<qa, qb, qc>>
          /\ \E lb, lc \in {OldDowngrade, StartTime} : lastDowngrade = <<0, lb, lc>>
       \/ /\ activeSources = <<1, 2>>
          /\ inactiveSources = <<3, 4>>
          /\ srcId = <<"a:1094", "b:1094", "c:1094", "d:1094">>
          /\ \E qa, qb \in QualityLevels, qc, qd \in InactiveQualities :
                 quality = <<qa, qb, qc, qd>>
          /\ \E lc, ld \in {OldDowngrade, StartTime} : lastDowngrade = <<0, 0, lc, ld>>
    /\ disabledSources = {}
    /\ disabledSourceStrings = {}
    /\ lastSourceCheck = StartTime
    /\ nextActiveSourceCheck = AddSeconds(StartTime, XRD_ADAPTOR_SHORT_OPEN_DELAY)
    /\ nextInitialSourceToggle = FALSE
    /\ m_file = FALSE
    /\ futures = <<2>>
    /\ callbacks = {}
    /\ m_ignore_response = FALSE
    /\ requests = [s \in 1..MaxSources |-> 0]
    /\ handed = <<>>
    /\ ticks = 0
    /\ iolist = <<>>
    /\ tmp_iolist = <<>>
    /\ front = 0
    /\ req1 = <<>>
    /\ req2 = <<>>
    /\ chunk1 = 0
    /\ chunk2 = 0
    /\ rounds = 0
    /\ splitDone = "no"

NextCompare ==
    \/ \E t \in Threads : CheckGate(t)
    \/ \E t \in Threads, probe \in BOOLEAN : CheckImpl(t, probe)
    \/ \E t \in Threads, asyncOK \in BOOLEAN : CheckOpen(t, asyncOK)

SpecCompare == InitCompare /\ [][NextCompare]_vars

(***************************************************************************)
(* Specification of handleOpen alone: a transport thread has resolved the  *)
(* promise of an open and is about to call m_manager.handleOpen            *)
(***************************************************************************)
\* ids of the servers, in the order in which the manager came to know them
KnownIds == <<"a:1094", "b:1094", "c:1094", "d:1094">>

\* the collections when the callback arrives (n: the sources made so far):
\* requestFailure is waiting with activeSources empty, or one or two
\* sources are active, with or without an inactive one
OpenConfigs ==
    { [n |-> 1, active |-> <<>>, inactive |-> <<>>, disabled |-> {1}],
      [n |-> 1, active |-> <<1>>, inactive |-> <<>>, disabled |-> {}],
      [n |-> 2, active |-> <<1, 2>>, inactive |-> <<>>, disabled |-> {}],
      [n |-> 2, active |-> <<1>>, inactive |-> <<2>>, disabled |-> {}],
      [n |-> 3, active |-> <<1, 2>>, inactive |-> <<3>>, disabled |-> {}] }

InitOpen ==
    /\ \E c \in OpenConfigs, ok \in BOOLEAN, k \in 1..Len(KnownIds), q \in QualitySet :
          /\ k <= c.n + 1
          /\ activeSources = c.active
          /\ inactiveSources = c.inactive
          /\ disabledSources = c.disabled
          /\ disabledSourceStrings = {KnownIds[i] : i \in c.disabled}
          /\ IF ok
             THEN /\ srcId = SubSeq(KnownIds, 1, c.n) \o <<KnownIds[k]>>
                  /\ quality = [i \in 1..(c.n + 1) |-> q]
                  /\ lastDowngrade = [i \in 1..(c.n + 1) |-> 0]
                  /\ futures = <<c.n + 1>>
             ELSE /\ k = 1
                  /\ srcId = SubSeq(KnownIds, 1, c.n)
                  /\ quality = [i \in 1..c.n |-> q]
                  /\ lastDowngrade = [i \in 1..c.n |-> 0]
                  /\ futures = <<OpenError>>
          /\ pc = [t \in Threads |-> IF t = "x1" THEN "cb_handleOpen" ELSE "idle"]
          /\ local = [t \in Threads |->
                        IF t = "x1"
                        THEN [LocalIdle EXCEPT !.op = "cb", !.ok = ok, !.fut = 1,
                                               !.src = IF ok THEN c.n + 1 ELSE NoSource]
                        ELSE LocalIdle]
    /\ sourceLock = NoThread
    /\ handlerLock = NoThread
    /\ lastSourceCheck = StartTime
    /\ \E n \in 0..2 : nextActiveSourceCheck = NextCheckTime(StartTime, n)
    /\ nextInitialSourceToggle = FALSE
    /\ m_file = FALSE
    /\ callbacks = {}
    /\ m_ignore_response = FALSE
    /\ requests = [s \in 1..MaxSources |-> 0]
    /\ handed = <<>>
    /\ \E e \in ElapsedSet : clock = StartTime + e
    /\ ticks = 0
    /\ iolist = <<>>
    /\ tmp_iolist = <<>>
    /\ front = 0
    /\ req1 = <<>>
    /\ req2 = <<>>
    /\ chunk1 = 0
    /\ chunk2 = 0
    /\ rounds = 0
    /\ splitDone = "no"

NextOpen == \E t \in XrdThreads : CbHandleOpen(t)

SpecOpen == InitOpen /\ [][NextOpen]_vars

(***************************************************************************)
(* The opaque string and the URL of an open attempt, character by          *)
(* character; a thread is about to compose the URL in the constructor or   *)
(* in OpenHandler::open()                                                  *)
(***************************************************************************)
\* ss << "tried="
TriedEquals == <<"t", "r", "i", "e", "d", "=">>

\* ss << host << "," for every host
RECURSIVE WriteHosts(_)
WriteHosts(hosts) ==
    IF hosts = <<>> THEN <<>> ELSE hosts[1] \o <<",">> \o WriteHosts(Tail(hosts))

\* a variant that keeps the comma written after the last host
OpaqueString_TrailingComma ==
    IF Len(prepareOpaqueString) > 0
    THEN TriedEquals \o WriteHosts(prepareOpaqueString)
    ELSE <<>>
\* the value of prepareOpaqueString(): tmp_str.substr(0, tmp_str.size() - 1)
\* if count is not zero, the empty string otherwise
OpaqueString ==
    IF Len(prepareOpaqueString) > 0
    THEN LET tmp_str == TriedEquals \o WriteHosts(prepareOpaqueString)
         IN SubSeq(tmp_str, 1, Len(tmp_str) - 1)
    ELSE <<>>

\* (m_name.find("?") == m_name.npos) ? "?" : "&"
Separator(name) == IF Find(name, "?") = Len(name) THEN <<"?">> ELSE <<"&">>

\* new_filename of the constructor and new_name of OpenHandler::open()
ComposeUrl(name, inCtor) ==
    IF inCtor
    THEN name \o (IF Len(OpaqueString) > 0 THEN Separator(name) \o OpaqueString ELSE <<>>)
    ELSE name \o Separator(name) \o OpaqueString

\* m_name: a plain path, or a path that carries a query already
FileNames == {<<"/", "f">>, <<"/", "f", "?", "k", "=", "v">>}

BuildUrl(t) ==
    /\ pc[t] \in {"ctor_url", "open_url"}
    /\ local' = [local EXCEPT ![t].url = ComposeUrl(local[t].name, pc[t] = "ctor_url")]
    /\ pc' = [pc EXCEPT ![t] = "url_done"]
    /\ UNCHANGED <<sourceLock, handlerLock, collVars, checkVars, nextInitialSourceToggle,
                   srcVars, handlerVars, requests, handed, clockVars, splitVars>>

\* the constructor before an attempt (no source yet, servers of failed
\* attempts disabled), or open() on a manager in one of its configurations
InitUrl ==
    /\ \E inCtor \in BOOLEAN, c \in OpenConfigs, D \in SUBSET {"c:1094", "d:1094"},
          name \in FileNames, q \in QualitySet :
          /\ pc = [t \in Threads |->
                     IF t \in AppThreads THEN (IF inCtor THEN "ctor_url" ELSE "open_url")
                     ELSE "idle"]
          /\ local = [t \in Threads |->
                        IF t \in AppThreads
                        THEN [LocalIdle EXCEPT !.op = "url", !.name = name]
                        ELSE LocalIdle]
          /\ IF inCtor
             THEN /\ c.n = 1 /\ c.active = <<>>
                  /\ activeSources = <<>>
                  /\ inactiveSources = <<>>
                  /\ disabledSources = {}
                  /\ disabledSourceStrings = D
                  /\ srcId = <<>>
                  /\ quality = <<>>
                  /\ lastDowngrade = <<>>
                  /\ futures = <<>>
             ELSE /\ activeSources = c.active
                  /\ inactiveSources = c.inactive
                  /\ disabledSources = c.disabled
                  /\ disabledSourceStrings = {KnownIds[i] : i \in c.disabled} \cup D
                  /\ srcId = SubSeq(KnownIds, 1, c.n)
                  /\ quality = [i \in 1..c.n |-> q]
                  /\ lastDowngrade = [i \in 1..c.n |-> 0]
                  /\ futures = <<1>>
    /\ sourceLock = NoThread
    /\ handlerLock = NoThread
    /\ lastSourceCheck = StartTime
    /\ nextActiveSourceCheck = AddSeconds(StartTime, XRD_ADAPTOR_SHORT_OPEN_DELAY)
    /\ nextInitialSourceToggle = FALSE
    /\ m_file = FALSE
    /\ callbacks = {}
    /\ m_ignore_response = FALSE
    /\ requests = [s \in 1..MaxSources |-> 0]
    /\ handed = <<>>
    /\ \E e \in ElapsedSet : clock = StartTime + e
    /\ ticks = 0
    /\ iolist = <<>>
    /\ tmp_iolist = <<>>
    /\ front = 0
    /\ req1 = <<>>
    /\ req2 = <<>>
    /\ chunk1 = 0
    /\ chunk2 = 0
    /\ rounds = 0
    /\ splitDone = "no"

NextUrl == \E t \in AppThreads : BuildUrl(t)

SpecUrl == InitUrl /\ [][NextUrl]_vars

(***************************************************************************)
(* Properties of the collections of sources                                *)
(***************************************************************************)
\* C1: activeSources holds at most 2 sources in every reachable state,
\* also when several requestFailure calls wait on the same recovery open.
C1_AtMostTwoActive == Len(activeSources) <= 2

\* two requestFailure calls and the open callback have all installed the
\* source of the one recovery open
C1_ThreeActive ==
    /\ Len(activeSources) = 3
    /\ Len(futures) = 1

\* occurrences of the source object s in the sequence l
Occurrences(l, s) == Cardinality({ i \in 1..Len(l) : l[i] = s })

\* number of places of the three collections that hold the object s
Memberships(s) ==
    Occurrences(activeSources, s) + Occurrences(inactiveSources, s)
    + (IF s \in disabledSources THEN 1 ELSE 0)

\* C2: in every reachable state each Source object is in at most one of
\* activeSources, inactiveSources and disabledSources, and at most once in it.
C2_OneCollectionOnce == \A s \in 1..Len(srcId) : Memberships(s) <= 1

\* handleOpen and requestFailure have both installed the source of one open
C2_InstalledTwice ==
    \E s \in 1..Len(srcId) : Occurrences(activeSources, s) = 2 /\ Len(futures) = 1

\* C3: no source whose id is in disabledSourceStrings is in activeSources
\* (ids are never removed from disabledSourceStrings, so this is "once the
\* id is added, no source with that id is active in any later state").
C3_DisabledIdNeverActive ==
    \A i \in 1..Len(activeSources) : srcId[activeSources[i]] \notin disabledSourceStrings

\* disabledSourceStrings only grows
C3_DisabledIdsKept == [][disabledSourceStrings \subseteq disabledSourceStrings']_vars

\* a newly opened source with a disabled id is active
C3_DisabledIdActive ==
    \E i \in 1..Len(activeSources) :
        /\ srcId[activeSources[i]] \in disabledSourceStrings
        /\ activeSources[i] \notin disabledSources

(***************************************************************************)
(* Properties of the two locks                                             *)
(***************************************************************************)
\* thread t holds m_source_mutex and is blocked in OpenHandler::open()
\* on the handler's m_mutex, which thread u holds
WaitsForHandler(t, u) ==
    /\ pc[t] \in {"check_open", "rf_open"}
    /\ sourceLock = t
    /\ handlerLock = u

\* thread u holds the handler's m_mutex in HandleResponseWithHosts and is
\* blocked in addConnections on m_source_mutex, which thread t holds
WaitsForManager(u, t) ==
    /\ pc[u] = "cb_addConnections"
    /\ handlerLock = u
    /\ sourceLock = t

\* C4: no reachable state has a thread that holds sourceLock and waits for
\* the OpenHandler lock inside open() while a callback thread holds the
\* OpenHandler lock and waits for sourceLock.
C4_NoLockCycle ==
    ~(\E t \in Threads, u \in Threads : t # u /\ WaitsForHandler(t, u) /\ WaitsForManager(u, t))

\* the cycle: neither thread can take its next step
C4_LockCycle ==
    \E t \in Threads, u \in Threads :
        /\ t # u
        /\ WaitsForHandler(t, u)
        /\ WaitsForManager(u, t)
        /\ ~ENABLED (\E asyncOK \in BOOLEAN : RFOpen(t, asyncOK) \/ CheckOpen(t, asyncOK))
        /\ ~ENABLED CbAddConnections(u)

(***************************************************************************)
(* Properties of requestFailure                                            *)
(***************************************************************************)
\* C9: when requestFailure re-dispatches the request, the failed source is
\* in disabledSources and its id in disabledSourceStrings, and the source
\* that receives the request is neither the failed source object nor a
\* source whose id is in disabledSourceStrings.
C9_RedispatchAvoidsFailed ==
    \A t \in Threads :
        pc[t] = "rf_redispatch" =>
            /\ local[t].src \in disabledSources
            /\ srcId[local[t].src] \in disabledSourceStrings
            /\ local[t].to # local[t].src
            /\ srcId[local[t].to] \notin disabledSourceStrings

\* the request goes back to the source object that has just failed
C9_RedispatchToFailed ==
    \E t \in Threads : pc[t] = "rf_redispatch" /\ local[t].to = local[t].src

\* C10: with activeSources = [A, B], requestFailure for a request served by
\* A with a status other than InvalidResponse puts A in disabledSources and
\* A's id in disabledSourceStrings, leaves activeSources = [B], hands the
\* request to B, requests no open, and keeps A's reference (A stays in
\* disabledSources while the request is handed over).
C10_FailoverToOther ==
    [][\A t \in Threads :
         /\ \A A \in 1..Len(srcId), B \in 1..Len(srcId) :
              (/\ A # B
               /\ activeSources \in {<<A, B>>, <<B, A>>}
               /\ RequestFailure(t, A, "errOther"))
              => /\ A \in disabledSources'
                 /\ srcId[A] \in disabledSourceStrings'
                 /\ activeSources' = <<B>>
                 /\ pc'[t] = "rf_redispatch"
                 /\ local'[t].to = B
                 /\ requests'[B] = requests[B]
                 /\ UNCHANGED <<m_file, futures, callbacks, inactiveSources>>
         /\ (RFRedispatch(t) /\ local[t].fut = 0)
              => /\ requests'[local[t].to] = requests[local[t].to] + 1
                 /\ local[t].src \in disabledSources'
                 /\ UNCHANGED <<m_file, futures, callbacks, collVars>>
       ]_vars

\* requestFailure for A has left [B] of [A, B] and is handing the request
\* to B; the only open so far is the one that brought B
C10_Witness ==
    \E t \in Threads :
        /\ pc[t] = "rf_redispatch"
        /\ local[t].fut = 0
        /\ local[t].erased
        /\ local[t].src \in disabledSources
        /\ srcId[local[t].src] \in disabledSourceStrings
        /\ activeSources = <<local[t].to>>
        /\ local[t].to # local[t].src
        /\ srcId[local[t].to] # srcId[local[t].src]
        /\ Len(futures) = 1
        /\ ~m_file

(***************************************************************************)
(* Properties of splitClientRequest                                        *)
(***************************************************************************)
SplitEnded == \E t \in Threads : pc[t] \in {"split_done", "aborted"}

\* number of fragments of l whose byte range contains file position p
CoverCount(l, p) ==
    Cardinality({ i \in 1..Len(l) : l[i].offset <= p /\ p < l[i].offset + l[i].size })

\* every start and end of a fragment of l
Boundaries(l) ==
    { l[i].offset : i \in 1..Len(l) } \cup { l[i].offset + l[i].size : i \in 1..Len(l) }

DisjointRanges(l) == \A p \in Boundaries(l) : CoverCount(l, p) <= 1

\* out covers each byte of in exactly once (coverage is constant between
\* two neighbouring boundaries, so the boundaries decide it)
CoversExactly(in, out) ==
    \A p \in Boundaries(in) \cup Boundaries(out) :
        /\ CoverCount(out, p) = CoverCount(in, p)
        /\ CoverCount(out, p) <= 1

\* C6: for an input list with pairwise disjoint byte ranges and qualities
\* with q1 + q2 > 0, the lists F1 and F2 that splitClientRequest produces
\* cover each byte of the input exactly once, and their sizes add up to
\* the size of the input.
C6_SplitCoversInput ==
    (/\ SplitEnded
     /\ Len(iolist) > 0
     /\ DisjointRanges(iolist)
     /\ quality[activeSources[1]] + quality[activeSources[2]] > 0)
    => /\ CoversExactly(iolist, req1 \o req2)
       /\ SumSizes(req1) + SumSizes(req2) = SumSizes(iolist)

\* a split that took more than one round, cut an input fragment and filled
\* both output lists
C6_Witness ==
    /\ SplitEnded
    /\ quality[activeSources[1]] + quality[activeSources[2]] > 0
    /\ rounds >= 2
    /\ Len(req1) > 0 /\ Len(req2) > 0
    /\ \E i \in 1..Len(req1) : \A j \in 1..Len(iolist) : req1[i] # iolist[j]
    /\ \E i \in 1..Len(iolist) : iolist[i].size = 0

(***************************************************************************)
(* Properties of handle(iolist)                                            *)
(***************************************************************************)
RECURSIVE HandedFragments(_)
HandedFragments(plan) ==
    IF plan = <<>> THEN <<>> ELSE plan[1].list \o HandedFragments(Tail(plan))

\* the scatter-list handle call of thread t has ended: it has made its
\* calls of Source::handle, or an assertion has ended the process
HandleEnded(t) ==
    /\ local[t].op \in {"list1", "list"}
    /\ pc[t] \in {"list_return", "aborted"}

\* what the call has handed over covers the input exactly; one active
\* source gets the whole list, two get F1 and F2 in this order
HandedOnce(t) ==
    /\ CoversExactly(iolist, HandedFragments(handed))
    /\ SumSizes(HandedFragments(handed)) = SumSizes(iolist)
    /\ \A i \in 1..Len(handed) : InSeq(activeSources, handed[i].source)
    /\ (local[t].op = "list1" \/ Len(activeSources) = 1)
           => handed = <<[source |-> activeSources[1], list |-> iolist]>>
    /\ (local[t].op = "list" /\ Len(activeSources) >= 2 /\ Len(req1) > 0 /\ Len(req2) > 0)
           => handed = <<[source |-> activeSources[1], list |-> req1],
                         [source |-> activeSources[2], list |-> req2]>>

\* C5: for every scatter-list handle call, every byte of the input list is
\* handed to exactly one Source::handle call: the whole list to the one
\* active source, or F1 to activeSources[0] and F2 to activeSources[1], or
\* the whole list again when the check after the split leaves one source.
C5_EveryByteHandedOnce ==
    \A t \in Threads : (HandleEnded(t) /\ iolist # <<>>) => HandedOnce(t)

\* C5 for the calls that reach their calls of Source::handle
C5_HandedOnceAtDispatch ==
    \A t \in Threads : (HandleEnded(t) /\ pc[t] = "list_return") => HandedOnce(t)

\* the check between the split and the dispatch demoted a source: F1 and
\* F2 exist, and the whole list went to the source that is left
C5_WitnessDemoted ==
    \E t \in Threads :
        /\ pc[t] = "list_return"
        /\ local[t].op = "list"
        /\ Len(req1) > 0 /\ Len(req2) > 0
        /\ Len(activeSources) = 1
        /\ Len(inactiveSources) = 1
        /\ handed = <<[source |-> activeSources[1], list |-> iolist]>>

\* the call ended in a failed assertion of splitClientRequest and handed
\* nothing to any source
C5_NothingHanded ==
    \E t \in Threads :
        /\ HandleEnded(t)
        /\ pc[t] = "aborted"
        /\ SumSizes(iolist) > 0
        /\ handed = <<>>

\* offsets strictly increasing and no fragment reaching into the next
StrictlyAscending(l) ==
    \A i \in 1..Len(l) : \A j \in 1..Len(l) :
        i < j => l[i].offset < l[j].offset /\ l[i].offset + l[i].size <= l[j].offset

\* C7: for an input list with strictly increasing, non-overlapping offsets
\* no assertion of splitClientRequest fails: the offsets of F1 and of F2
\* are strictly increasing and no output fragment is larger than
\* XRD_CL_MAX_CHUNK.
C7_AssertionsHold == StrictlyAscending(iolist) => splitDone # "assert"

\* an assertion failed on a one-fragment list
C7_AssertionFailed ==
    /\ splitDone = "assert"
    /\ Len(iolist) = 1
    /\ StrictlyAscending(iolist)

\* C7 for qualities that are not both 0
C7_AssertionsHoldPositive ==
    (/\ StrictlyAscending(iolist)
     /\ quality[activeSources[1]] + quality[activeSources[2]] > 0)
    => splitDone # "assert"

\* what is left of the working copy: bytes and fragments from the cursor on
SplitRemaining ==
    SumSizes(SubSeq(tmp_iolist, front + 1, Len(tmp_iolist))) + Len(tmp_iolist) - front

\* C8: every round of the splitting loop makes progress (so the loop ends
\* when the working copy is exhausted), whatever the two qualities are.
C8_SplitRoundProgress ==
    [][rounds' = rounds + 1 => SplitRemaining' < SplitRemaining]_vars

\* rounds have run and the working copy is still the whole input
C8_NoProgress ==
    /\ rounds >= 2
    /\ splitDone = "no"
    /\ Len(iolist) > 0
    /\ tmp_iolist = iolist
    /\ front = 0
    /\ req1 = <<>> /\ req2 = <<>>

(***************************************************************************)
(* Properties of the error paths of requestFailure                         *)
(***************************************************************************)
\* C11: requestFailure with status code InvalidResponse raises
\* FileReadError at once: no source receives the request, no open is
\* requested, and the four collections are unchanged.
C11_InvalidResponseFailsEarly ==
    [][\A t \in Threads, s \in 1..MaxSources :
         RequestFailure(t, s, "errInvalidResponse")
         => /\ pc'[t] = "FileReadError"
            /\ \A u \in 1..MaxSources : requests'[u] <= requests[u]
            /\ requests'[s] = requests[s] - 1
            /\ UNCHANGED <<collVars, handlerVars, sourceLock>>
       ]_vars

\* the caller of requestFailure is receiving FileReadError while the
\* source that answered is still active and not disabled
C11_Witness ==
    \E t \in Threads :
        /\ pc[t] = "FileReadError"
        /\ Len(activeSources) >= 1
        /\ disabledSources = {}
        /\ disabledSourceStrings = {}
        /\ futures = <<>>

\* C12: whenever an asynchronous open succeeds with a source whose id is in
\* disabledSourceStrings, FileOpenError is raised and the source is not
\* installed in activeSources, for the callback's handleOpen as well as for
\* the requestFailure that waited for the open.
C12_ExcludedSourceRejected ==
    [][\A t \in Threads :
         /\ (/\ CbHandleOpen(t)
             /\ local[t].ok
             /\ srcId[local[t].src] \in disabledSourceStrings)
            => activeSources' = activeSources
         /\ (/\ RFInstall(t)
             /\ srcId[futures[local[t].fut]] \in disabledSourceStrings)
            => /\ activeSources' = activeSources
               /\ pc'[t] = "FileOpenError"
       ]_vars

\* the source an open has returned is active although its id was disabled
\* before the open was answered
C12_ExcludedInstalled ==
    \E a \in 1..Len(futures) :
        /\ futures[a] > 0
        /\ InSeq(activeSources, futures[a])
        /\ futures[a] \notin disabledSources
        /\ srcId[futures[a]] \in disabledSourceStrings

\* C13: when requestFailure leaves activeSources empty it requests an open
\* and waits for the future without holding sourceLock; it takes the lock
\* again before it modifies activeSources, and when the wait times out it
\* raises FileOpenError without handing the request to any source.
C13_WaitsUnlocked ==
    [][\A t \in Threads :
         /\ (\E s \in 1..MaxSources :
                RequestFailure(t, s, "errOther") /\ activeSources' = <<>>)
            => pc'[t] = "rf_open" /\ sourceLock' = t
         /\ (\E asyncOK \in BOOLEAN : RFOpen(t, asyncOK))
            => /\ pc'[t] \in {"rf_wait", "FileOpenError"}
               /\ pc'[t] = "rf_wait" => Len(futures') >= 1 /\ m_file'
         /\ pc'[t] = "rf_wait" => sourceLock' # t
         /\ (pc[t] = "rf_wait" /\ activeSources' # activeSources /\ pc'[t] # "rf_wait")
            => sourceLock = NoThread /\ sourceLock' = t
         /\ RFTimeout(t)
            => /\ pc'[t] = "FileOpenError"
               /\ UNCHANGED <<requests, collVars>>
       ]_vars

\* during the wait of requestFailure the callback thread is about to run
\* handleOpen, and the lock is free for it
C13_Witness ==
    \E t \in Threads, u \in Threads :
        /\ pc[t] = "rf_wait"
        /\ pc[u] = "cb_handleOpen"
        /\ activeSources = <<>>
        /\ sourceLock = NoThread
        /\ ENABLED CbHandleOpen(u)

(***************************************************************************)
(* Properties of the destruction of the open handler                       *)
(***************************************************************************)
\* C14: once ~OpenHandler has returned with its wait ended by the future
\* becoming ready, no callback is between its entry and its return (none is
\* left to use the handler or to call handleOpen); and a callback that
\* starts when the destructor has set m_ignore_response returns at once:
\* it resolves no promise and does not go on to handleOpen.
C14_NoCallbackOutlivesHandler ==
    [][ /\ (\E d \in AppThreads : pc'[d] = "dtor_done" /\ local'[d].ok)
            => \A u \in XrdThreads : pc'[u] \notin CallbackPositions
        /\ \A u \in XrdThreads, a \in callbacks :
               (HRTestAndSet(u, a) /\ \E d \in AppThreads : pc[d] \in {"dtor_wait", "dtor_done"})
                   => pc'[u] = "idle" /\ futures' = futures ]_vars

\* the destructor has returned on a ready future and the callback that made
\* it ready still holds m_mutex or has yet to call handleOpen
C14_CallbackOutlivesHandler ==
    /\ \E d \in AppThreads : pc[d] = "dtor_done" /\ local[d].ok
    /\ \E u \in XrdThreads : pc[u] \in {"hr_unlock", "cb_handleOpen"} /\ FutureReady

(***************************************************************************)
(* Properties of the open handler                                          *)
(***************************************************************************)
\* a call of OpenHandler::open() by thread t (from the health check or from
\* requestFailure)
OpenCall(t) == \E asyncOK \in BOOLEAN : CheckOpen(t, asyncOK) \/ RFOpen(t, asyncOK)

\* C15: at most one transport open is in flight; open() called while an
\* attempt is in flight starts no new attempt and hands out the future of
\* that attempt; a future, once resolved, never changes again, and it is
\* resolved only by the callback of its own attempt; when it is resolved
\* the handler is free again, and open() on a free handler starts a new
\* attempt with a new pending future.
C15_SingleFlight ==
    [][ /\ Cardinality(callbacks') <= 1
        /\ \A t \in Threads :
               (OpenCall(t) /\ callbacks # {})
                   => /\ futures' = futures
                      /\ callbacks' = callbacks
                      /\ pc'[t] = "rf_wait" => local'[t].fut \in callbacks
        /\ \A a \in 1..Len(futures) :
               /\ futures[a] # Pending => futures'[a] = futures[a]
               /\ (futures[a] = Pending /\ futures'[a] # Pending)
                      => /\ \/ a \in callbacks \ callbacks'
                            \/ \E u \in XrdThreads : /\ pc[u] = "cb_addConnections"
                                                     /\ local[u].fut = a
                         /\ ~m_file'
        /\ \A t \in Threads :
               (OpenCall(t) /\ ~m_file)
                   => /\ Len(futures') = Len(futures) + 1
                      /\ futures'[Len(futures')] = Pending
                      /\ callbacks' \subseteq {Len(futures')} ]_vars

\* the first attempt has been resolved by its callback, a second attempt is
\* in flight, and two requestFailure calls wait on the future of the second
C15_Witness ==
    /\ Len(futures) = 2
    /\ futures[1] # Pending
    /\ futures[2] = Pending
    /\ callbacks = {2}
    /\ \E t, u \in Threads : /\ t # u
                             /\ pc[t] = "rf_wait" /\ local[t].fut = 2
                             /\ pc[u] = "rf_wait" /\ local[u].fut = 2

(***************************************************************************)
(* Properties of the health check                                          *)
(***************************************************************************)
\* thread t takes a step of checkSources (the gate, checkSourcesImpl or its
\* call of open())
CheckStep(t) ==
    \/ CheckGate(t)
    \/ \E probe \in BOOLEAN : CheckImpl(t, probe)
    \/ \E asyncOK \in BOOLEAN : CheckOpen(t, asyncOK)

\* C16: a health check that follows another health check with the same now,
\* with no handleOpen and no requestFailure in between, changes nothing:
\* the two collections, the lastDowngrade values, lastSourceCheck and
\* nextActiveSourceCheck stay as they are and no open is requested.
C16_SecondCheckChangesNothing ==
    [][ (CheckStep(SecondCaller) /\ local[SecondCaller].now = clock)
            => /\ UNCHANGED <<activeSources, inactiveSources, lastDowngrade, checkVars,
                              handlerVars>>
               /\ pc'[SecondCaller] # "check_open" ]_vars

\* the first check ended in the FileOpenError of open(); the second check
\* with the same now has passed the gate and has set lastSourceCheck
C16_SecondCheckRan ==
    /\ pc[FirstCaller] = "idle"
    /\ local[SecondCaller].op = "single"
    /\ pc[SecondCaller] = "dispatch"
    /\ local[SecondCaller].now = clock
    /\ lastSourceCheck = clock
    /\ nextActiveSourceCheck > clock
    /\ m_file /\ callbacks = {}

(***************************************************************************)
(* Properties of the constructor                                           *)
(***************************************************************************)
\* C17: the constructor makes at most 5 open attempts; at the first success
\* activeSources is exactly the one new source, inactiveSources and
\* disabledSources are empty and nextActiveSourceCheck is now + 5 s; when
\* the fifth attempt has failed too the constructor ends in FileOpenError.
C17_ConstructorOutcome ==
    [][ \A t \in AppThreads, res \in CtorResults :
          CtorAttempt(t, res)
              => /\ local[t].idx + 1 <= 5
                 /\ res.ok => /\ pc'[t] = "idle"
                              /\ Len(activeSources') = 1
                              /\ srcId'[activeSources'[1]] = res.dataServer
                              /\ activeSources'[1] \notin {activeSources[i] :
                                                             i \in 1..Len(activeSources)}
                              /\ inactiveSources' = <<>>
                              /\ disabledSources' = {}
                              /\ nextActiveSourceCheck' = clock + 5 * 1000
                 /\ ~res.ok => pc'[t] \in {"ctor", "FileOpenError"}
                 /\ (~res.ok /\ local[t].idx + 1 = 5) => pc'[t] = "FileOpenError" ]_vars

\* the manager is constructed by an attempt that followed failed attempts
C17_Witness ==
    /\ \E t \in AppThreads : pc[t] = "idle"
    /\ Len(activeSources) = 1
    /\ disabledSourceStrings # {}
    /\ nextActiveSourceCheck = clock + 5 * 1000

\* the elements of a sequence
Elements(l) == {l[i] : i \in 1..Len(l)}

C19_SingleRequestsAlternate ==
    [][ \A t \in Threads :
          (DispatchSingle(t) /\ pc'[t] = "idle")
              => /\ Len(activeSources) = 2
                     => /\ requests' = Given(requests, pickSingleSource.source)
                        /\ nextInitialSourceToggle' = ~nextInitialSourceToggle
                        /\ pickSingleSource.source \in {activeSources[1], activeSources[2]}
                        /\ pickSingleSource'.source \in {activeSources[1], activeSources[2]}
                        /\ pickSingleSource'.source # pickSingleSource.source
                 /\ Len(activeSources) = 1
                     => /\ requests' = Given(requests, activeSources[1])
                        /\ nextInitialSourceToggle' = nextInitialSourceToggle ]_vars

\* activeSources holds one source in both places and two single requests
\* in a row have been given to it
C19_SameSourceTwice ==
    /\ Len(activeSources) = 2
    /\ activeSources[1] = activeSources[2]
    /\ nextInitialSourceToggle
    /\ requests[activeSources[1]] = 2
    /\ \A t \in Threads : pc[t] = "idle"

(***************************************************************************)
(* Properties of the pairwise comparison of the active sources             *)
(***************************************************************************)
\* the condition under which source a is demoted against source b
Demotable(a, b) ==
    \/ quality[a] > 5130
    \/ (quality[a] > 260 /\ 4 * quality[b] < quality[a])

\* the collections after compareSources(now, 0, 1) and compareSources(now, 1, 0)
Pairwise(now) ==
    LET s0 == [active |-> activeSources, inactive |-> inactiveSources,
               ld |-> lastDowngrade, find |-> FALSE]
    IN compareSources(compareSources(s0, now, 0, 1), now, 1, 0)

\* the health check of thread t has demoted source a
Demoted(t, a) ==
    /\ a \notin Elements(activeSources')
    /\ a \in Elements(inactiveSources')
    /\ lastDowngrade'[a] = local[t].now
    /\ lastDowngrade[a] # 0 => pc'[t] = "check_open"

\* C20: a health check that runs with two active sources demotes each
\* active source a (b being the other one) with quality(a) > 5130, or
\* quality(a) > 260 and 4 * quality(b) < quality(a): a leaves activeSources,
\* is in inactiveSources, has lastDowngrade = now, and an open is requested
\* if a had been downgraded before; a source that satisfies neither
\* condition is kept by the pairwise comparison.
C20_EachPoorSourceDemoted ==
    [][ \A t \in Threads, probe \in BOOLEAN :
          (CheckImpl(t, probe) /\ Len(activeSources) = 2)
              => \A i \in 1..2 :
                    LET a == activeSources[i]
                        b == activeSources[3 - i]
                    IN IF Demotable(a, b) THEN Demoted(t, a)
                       ELSE a \in Elements(Pairwise(local[t].now).active) ]_vars

\* C20 (amended): a health check that runs with two active sources demotes
\* the source at position 0 if it satisfies the condition against the
\* source at position 1, and then keeps the source at position 1 whatever
\* its quality; otherwise it demotes the source at position 1 if that one
\* satisfies the condition against the source at position 0; a source that
\* does not satisfy the condition is kept by the pairwise comparison.
C20_FirstPoorSourceDemoted ==
    [][ \A t \in Threads, probe \in BOOLEAN :
          (CheckImpl(t, probe) /\ Len(activeSources) = 2)
              => LET a0 == activeSources[1]
                     a1 == activeSources[2]
                     kept == Elements(Pairwise(local[t].now).active)
                 IN /\ Demotable(a0, a1) => Demoted(t, a0) /\ a1 \in kept
                    /\ (~Demotable(a0, a1) /\ Demotable(a1, a0))
                           => Demoted(t, a1) /\ a0 \in kept
                    /\ (~Demotable(a0, a1) /\ ~Demotable(a1, a0))
                           => kept = {a0, a1} ]_vars

\* a check has demoted a source that had been downgraded before and is
\* about to ask for an open; the source it kept is above 5130 as well
C20_Witness ==
    \E t \in Threads :
        /\ pc[t] = "check_open"
        /\ Len(activeSources) >= 1
        /\ quality[activeSources[1]] > 5130
        /\ \E s \in Elements(inactiveSources) :
               quality[s] > 5130 /\ lastDowngrade[s] = local[t].now

(***************************************************************************)
(* Properties of the promotion of inactive sources                         *)
(***************************************************************************)
\* the inactive sources that a check at time now may promote
Eligible(now) ==
    eligibleInactiveSources(inactiveSources, lastDowngrade, now,
                            XRD_ADAPTOR_SHORT_OPEN_DELAY)

\* C21: a health check that runs while exactly one source is active and at
\* least one inactive source is eligible (downgraded more than 4 s before
\* now) moves the eligible inactive source of lowest quality into
\* activeSources, which then holds two sources.
C21_PromotesWithOneActive ==
    [][ \A t \in Threads, probe \in BOOLEAN :
          (CheckImpl(t, probe) /\ Len(activeSources) = 1
             /\ Eligible(local[t].now) # <<>>)
              => /\ Len(activeSources') = 2
                 /\ activeSources'[1] = activeSources[1]
                 /\ activeSources'[2] \in Elements(Eligible(local[t].now))
                 /\ \A s \in Elements(Eligible(local[t].now)) :
                        quality[activeSources'[2]] <= quality[s]
                 /\ activeSources'[2] \notin Elements(inactiveSources') ]_vars

\* a check has run with one active source and an eligible inactive source:
\* the collections are as before and the check is about to ask for an open
C21_NotPromoted ==
    \E t \in Threads :
        /\ pc[t] = "check_open"
        /\ Len(activeSources) = 1
        /\ Eligible(local[t].now) # <<>>

(***************************************************************************)
(* Properties of the schedule of the health check                          *)
(***************************************************************************)
\* thread t ends a health check without an exception
CheckReturns(t) ==
    /\ \/ \E probe \in BOOLEAN : CheckImpl(t, probe)
       \/ \E asyncOK \in BOOLEAN : CheckOpen(t, asyncOK)
    /\ pc'[t] = "dispatch"

\* C22: when a health check that ran at time now ends, nextActiveSourceCheck
\* is now + 120 s if activeSources holds two sources then, and now + 5 s
\* otherwise.
C22_NextCheckScheduled ==
    [][ \A t \in Threads :
          CheckReturns(t)
              => nextActiveSourceCheck' =
                     IF Len(activeSources') = 2
                     THEN local[t].now + 120 * 1000
                     ELSE local[t].now + 5 * 1000 ]_vars

\* a check has ended with two active sources and the next check is due
\* 115 s after it
C22_ScheduledEarly ==
    \E t \in Threads :
        /\ pc[t] = "dispatch"
        /\ Len(activeSources) = 2
        /\ nextActiveSourceCheck = local[t].now + 115 * 1000

(***************************************************************************)
(* Properties of the swap of an active with an inactive source             *)
(***************************************************************************)
\* the sources that a step takes out of, and puts into, activeSources
Left == Elements(activeSources) \ Elements(activeSources')
Entered == Elements(activeSources') \ Elements(activeSources)

\* the active source of highest quality value
WorstActive == activeSources[MaxElement(activeSources)]

\* lowest quality value among the eligible inactive sources
BestQuality(now) ==
    CHOOSE q \in {quality[s] : s \in Elements(Eligible(now))} :
        \A s \in Elements(Eligible(now)) : q <= quality[s]

FreshId(s) ==
    \A x \in Elements(activeSources) \cup Elements(inactiveSources) : srcId[x] # srcId[s]

\* C24: handleOpen with an OK status and a source whose id is that of no
\* active and no inactive source appends the source to activeSources if
\* that holds fewer than two sources and to inactiveSources otherwise;
\* with an OK status and the id of an active or inactive source, or with
\* an error status, it leaves the collections as they are and moves
\* nextActiveSourceCheck back by 120 - 5 seconds.
C24_HandleOpen ==
    [][ \A t \in XrdThreads :
          CbHandleOpen(t)
              => IF local[t].ok /\ FreshId(local[t].src)
                 THEN /\ UNCHANGED <<disabledSources, disabledSourceStrings>>
                      /\ IF Len(activeSources) < 2
                         THEN /\ activeSources' = Append(activeSources, local[t].src)
                              /\ inactiveSources' = inactiveSources
                         ELSE /\ inactiveSources' = Append(inactiveSources, local[t].src)
                              /\ activeSources' = activeSources
                 ELSE /\ UNCHANGED collVars
                      /\ nextActiveSourceCheck' = nextActiveSourceCheck + (120 - 5) * 1000
      ]_vars

\* handleOpen has put a fourth source behind the inactive one
C24_Witness ==
    /\ \A t \in Threads : pc[t] = "idle"
    /\ activeSources = <<1, 2>>
    /\ inactiveSources = <<3, 4>>
    /\ srcId[4] = "d:1094"

(***************************************************************************)
(* Properties of the exclusion string                                      *)
(***************************************************************************)
\* the ids of the active, the inactive and the disabled sources
ExcludedIds ==
    {srcId[x] : x \in Elements(activeSources) \cup Elements(inactiveSources)}
    \cup disabledSourceStrings

\* the pieces of a string between its commas
RECURSIVE Pieces(_, _)
Pieces(str, piece) ==
    IF str = <<>> THEN {piece}
    ELSE IF str[1] = "," THEN {piece} \cup Pieces(Tail(str), <<>>)
    ELSE Pieces(Tail(str), Append(piece, str[1]))

\* the string that follows tried=
AfterTried(str) == SubSeq(str, Len(TriedEquals) + 1, Len(str))

\* C25: the exclusion string of an open attempt is empty when there is no
\* active, inactive or disabled id; otherwise it is tried= followed by a
\* comma-separated list whose entries are exactly the prefixes up to the
\* first ':' of those ids; the URL is the file name, then '?' if the name
\* holds no '?' and '&' if it does, then the exclusion string.
C25_ExclusionString ==
    \A t \in AppThreads :
        pc[t] = "url_done"
            => /\ ExcludedIds = {} => OpaqueString = <<>>
               /\ ExcludedIds # {}
                    => /\ SubSeq(OpaqueString, 1, Len(TriedEquals)) = TriedEquals
                       /\ Pieces(AfterTried(OpaqueString), <<>>)
                              = {HostOf(id) : id \in ExcludedIds}
                       /\ LET name == local[t].name
                              hasQuery == \E i \in 1..Len(name) : name[i] = "?"
                          IN local[t].url
                                 = name \o (IF hasQuery THEN <<"&">> ELSE <<"?">>)
                                        \o OpaqueString

\* a URL has been composed for a name that carries a query, with an active,
\* an inactive and a disabled id to exclude
C25_Witness ==
    \E t \in AppThreads :
        /\ pc[t] = "url_done"
        /\ Len(activeSources) = 2 /\ Len(inactiveSources) = 1
        /\ disabledSourceStrings # {}
        /\ Find(local[t].name, "?") < Len(local[t].name)
        /\ Len(local[t].url) > Len(local[t].name) + Len(TriedEquals)

(***************************************************************************)
(* Properties of the buffers of the split                                  *)
(***************************************************************************)
\* the byte ranges of two fragments have a file position in common
Overlap(a, b) ==
    /\ a.size > 0 /\ b.size > 0
    /\ a.offset < b.offset + b.size
    /\ b.offset < a.offset + a.size

\* the fragment puts every file position of its range at the address the
\* input list gives to that position
KeepsMapping(out, in) ==
    \A j \in 1..Len(in) :
        Overlap(out, in[j]) => out.data - out.offset = in[j].data - in[j].offset

\* C26: every output fragment of splitClientRequest keeps the caller's
\* mapping from file offset to buffer address: each file position of its
\* range goes to the address the input fragment holding that position
\* gives it, so a cut input fragment is merged into the output tail only
\* when the tail's buffer ends where that fragment's buffer begins.
C26_BufferMappingKept ==
    (/\ SplitEnded
     /\ DisjointRanges(iolist)
     /\ quality[activeSources[1]] + quality[activeSources[2]] > 0)
    => \A i \in 1..Len(req1 \o req2) : KeepsMapping((req1 \o req2)[i], iolist)

\* an output fragment runs from the buffer of one input fragment into file
\* positions whose bytes belong in the separate buffer of the next one
C26_MergedAcrossBuffers ==
    /\ SplitEnded
    /\ DisjointRanges(iolist)
    /\ quality[activeSources[1]] + quality[activeSources[2]] > 0
    /\ \E i \in 1..Len(req1 \o req2), j, k \in 1..Len(iolist) :
          LET out == (req1 \o req2)[i] IN
          /\ j # k
          /\ Overlap(out, iolist[j]) /\ Overlap(out, iolist[k])
          /\ out.data = iolist[j].data
          /\ iolist[k].data # iolist[j].data + (iolist[k].offset - iolist[j].offset)

(***************************************************************************)
(* Properties of a synchronous failure of OpenHandler::open()              *)
(***************************************************************************)
\* open() threw FileOpenError in this step
OpenThrew(t) ==
    /\ pc[t] \in {"check_open", "rf_open"}
    /\ pc'[t] = "FileOpenError"

\* C27: when OpenHandler::open() throws FileOpenError because File::Open
\* failed synchronously, the handler is not left marked as having an open
\* in flight (m_file is reset), so that a later open() starts a new attempt
\* and does not return a future no callback resolves.
C27_SyncFailureClearsFile ==
    [][\A t \in Threads : OpenThrew(t) => ~m_file']_vars

\* requestFailure waits on the future of an attempt whose File::Open had
\* failed synchronously: no callback is registered or running to resolve it
C27_WaitsOnDeadFuture ==
    \E t \in Threads :
        /\ pc[t] = "rf_wait"
        /\ futures[local[t].fut] = Pending
        /\ m_file
        /\ callbacks = {}
        /\ \A u \in Threads : pc[u] \notin CallbackPositions

(***************************************************************************)
(* Properties of activeSources outside the lock                            *)
(***************************************************************************)
\* C28: after the constructor has succeeded, activeSources is non-empty in
\* every state in which sourceLock is not held, also while requestFailure
\* waits for a recovery open and after that wait has ended in a timeout or
\* an open error, so that activeSources[0] can always be read.
C28_ActiveNonEmptyUnlocked ==
    sourceLock = NoThread => Len(activeSources) > 0

\* the wait of requestFailure has ended in an exception that was caught,
\* the lock is free, no thread is inside the manager and activeSources is
\* empty: the next handle() reads activeSources[0] of an empty vector
C28_EmptyAfterFailedRecovery ==
    /\ sourceLock = NoThread
    /\ \A t \in Threads : pc[t] = "idle"
    /\ Len(activeSources) = 0
    /\ Len(futures) > 0
    /\ ENABLED (\E t \in AppThreads : HandleSingle(t))

(***************************************************************************)
(* Properties of the pairwise comparison of a health check                 *)
(***************************************************************************)
\* the sources the pairwise comparison of a check at time now demotes
PairwiseDemoted(now) == Elements(activeSources) \ Elements(Pairwise(now).active)

\* C29: a health check that starts with two active sources never empties
\* activeSources; its pairwise comparison demotes at most one of the two,
\* also when both qualities exceed 5130; the demoted source is not of
\* strictly better (lower) quality than the one kept; and a source demoted
\* in a check is not promoted again in that check.
C29_DemotesTheWorse ==
    [][ \A t \in Threads, probe \in BOOLEAN :
          (CheckImpl(t, probe) /\ Len(activeSources) = 2)
              => LET now == local[t].now
                     kept == Elements(Pairwise(now).active)
                 IN /\ Len(activeSources') > 0
                    /\ Cardinality(PairwiseDemoted(now)) <= 1
                    /\ \A a \in PairwiseDemoted(now), b \in kept :
                           ~(quality[a] < quality[b])
                    /\ \A a \in PairwiseDemoted(now) :
                           a \notin Elements(activeSources') ]_vars

\* a check has demoted a source above 5130 and kept an active source of
\* strictly worse quality
C29_KeptTheWorse ==
    \E t \in Threads :
        /\ pc[t] # "check_gate"
        /\ \E a \in Elements(inactiveSources), b \in Elements(activeSources) :
               /\ lastDowngrade[a] = local[t].now
               /\ quality[a] > 5130
               /\ quality[a] < quality[b]

====
